---------------------------- MODULE Spec2Model ----------------------------
(*************************************************************************)
(* domaincheck: domain normalisation, the DNS -> RDAP -> WHOIS cascade   *)
(* of checker.Check, the bounded-concurrency batch handler, the          *)
(* single-domain handler and the CSRF token store of the dashboard.      *)
(*                                                                       *)
(* Go strings are modelled as sequences of one-character strings, so    *)
(* that trimming, lowercasing, splitting and joining are computed, not   *)
(* assumed.  Error messages are sequences of message fragments           *)
(* (fmt.Sprintf / fmt.Errorf concatenation); the empty message is <<>>.  *)
(*************************************************************************)
EXTENDS Integers, Sequences, FiniteSets, TLC

VARIABLES
    input,      \* Normalize: the raw argument
    npc,        \* Normalize driver: "start" | "normalized" | "renormalized"
    nres,       \* result of Normalize(input)
    nres2,      \* result of Normalize(nres.d.Full)
    probe,      \* a prober called on its own: arguments, environment, answer
    ctxErr,     \* ctx.Err() of the request context: "none" | "canceled" | "deadline"
    call,       \* the activations of checker.Check, by caller
    req,        \* CheckDomainsHandler: req.Domains
    hpc,        \* CheckDomainsHandler: "recv" | "rejected" | "waiting" | "responded"
    httpStatus, \* status code written to the ResponseWriter (0: none yet)
    normalizedDomains,
    normErrors,
    results,    \* the pre-sized result slice
    upc,        \* position of each goroutine: "select" | "checking" | "exit" | "done"
    sem,        \* number of elements in the semaphore channel
    response,   \* the encoded CheckResponse
    produced,   \* history: the verdict each goroutine built
    csrfHeader, \* r.Header.Get("X-CSRF-Token") of the request ("" when absent)
    csrfTokens, \* csrfStore.tokens: stored token -> "fresh" | "expired"
    csrfCalls,  \* the calls of generateCSRFToken / ValidateCSRFToken, by goroutine
    csrfIssued, \* number of tokens rand.Read has produced so far
    httpReq,    \* CheckSingleDomainHandler: r.Method and r.URL.Path
    batches     \* concurrent CheckDomainsHandler calls: goroutine positions and sem

normVars == <<input, npc, nres, nres2, probe>>

checkVars == <<ctxErr, call>>

batchVars == <<req, hpc, httpStatus, normalizedDomains, normErrors, results, upc, sem,
               response, produced>>

csrfVars == <<csrfHeader, csrfTokens, csrfCalls, csrfIssued>>

singleVars == <<httpReq>>

slotVars == <<batches>>

vars == <<input, npc, nres, nres2, probe, ctxErr, call, req, hpc, httpStatus, normalizedDomains,
          normErrors, results, upc, sem, response, produced, csrfHeader, csrfTokens,
          csrfCalls, csrfIssued,
          httpReq, batches>>

-----------------------------------------------------------------------------
(* Bounds *)

\* longest raw input string given to Normalize
MaxLen == 4

-----------------------------------------------------------------------------
(* Strings *)

\* characters a raw input is drawn from: a lower-case letter, an upper-case
\* letter, a digit, white space, the dot, the hyphen, and a character outside
\* the domain character set
Alphabet == {"a", "B", "1", " ", ".", "-", "_"}

RECURSIVE StringsUpTo(_)
StringsUpTo(n) ==
    IF n = 0 THEN {<<>>}
    ELSE LET shorter == StringsUpTo(n - 1)
         IN  shorter \cup {Append(s, c) : s \in {t \in shorter : Len(t) = n - 1}, c \in Alphabet}

DotCom == <<".", "c", "o", "m">>

\* unicode.IsSpace, on the ASCII range
IsSpace(c) == c \in {" ", "\t", "\n", "\r"}

\* strings.TrimSpace
RECURSIVE TrimLeft(_)
TrimLeft(s) ==
    IF s # <<>> /\ IsSpace(Head(s)) THEN TrimLeft(Tail(s)) ELSE s

RECURSIVE TrimRight(_)
TrimRight(s) ==
    IF s # <<>> /\ IsSpace(s[Len(s)]) THEN TrimRight(SubSeq(s, 1, Len(s) - 1)) ELSE s

TrimSpace(s) == TrimRight(TrimLeft(s))

UpperCase == <<"A", "B", "C", "D", "E", "F", "G", "H", "I", "J", "K", "L", "M",
               "N", "O", "P", "Q", "R", "S", "T", "U", "V", "W", "X", "Y", "Z">>

LowerCase == <<"a", "b", "c", "d", "e", "f", "g", "h", "i", "j", "k", "l", "m",
               "n", "o", "p", "q", "r", "s", "t", "u", "v", "w", "x", "y", "z">>

\* unicode.ToLower on one character
LowerChar(c) ==
    IF \E k \in 1..Len(UpperCase) : UpperCase[k] = c
    THEN LowerCase[CHOOSE k \in 1..Len(UpperCase) : UpperCase[k] = c]
    ELSE c

\* strings.ToLower
ToLower(s) == [i \in 1..Len(s) |-> LowerChar(s[i])]

\* strings.Contains(s, ".")
ContainsDot(s) == \E i \in 1..Len(s) : s[i] = "."

\* strings.HasSuffix(s, suffix)
HasSuffix(s, suffix) ==
    /\ Len(s) >= Len(suffix)
    /\ SubSeq(s, Len(s) - Len(suffix) + 1, Len(s)) = suffix

\* strings.HasPrefix(s, prefix)
HasPrefix(s, prefix) ==
    /\ Len(s) >= Len(prefix)
    /\ SubSeq(s, 1, Len(prefix)) = prefix

\* strings.Split(s, "."): the dot-separated segments, empty ones included
RECURSIVE SplitFrom(_, _, _)
SplitFrom(s, i, cur) ==
    IF i > Len(s) THEN <<cur>>
    ELSE IF s[i] = "." THEN <<cur>> \o SplitFrom(s, i + 1, <<>>)
    ELSE SplitFrom(s, i + 1, Append(cur, s[i]))

Split(s) == SplitFrom(s, 1, <<>>)

\* strings.Join(parts, ".")
RECURSIVE Join(_)
Join(parts) ==
    IF parts = <<>> THEN <<>>
    ELSE IF Len(parts) = 1 THEN parts[1]
    ELSE parts[1] \o <<".">> \o Join(Tail(parts))

-----------------------------------------------------------------------------
(* domain.Domain and domain.Normalize *)

ErrNone == "nil"
ErrEmptyDomain == "domain cannot be empty"
ErrInvalidFormat == "invalid domain format"

Domain(full, name, tld) == [Full |-> full, Name |-> name, TLD |-> tld]

ZeroDomain == Domain(<<>>, <<>>, <<>>)

NormFail(e) == [d |-> ZeroDomain, err |-> e]
NormOK(d) == [d |-> d, err |-> ErrNone]

\* faulty variants: the condition inverted; the old server rule (append unless
\* the input ends in ".com")
NeedsDefaultTLDInverted(s) == ContainsDot(s)
NeedsDefaultTLDOldServer(s) == ~HasSuffix(s, DotCom)
\* if !strings.Contains(input, ".")
NeedsDefaultTLD(s) == ~ContainsDot(s)

\* faulty variant: the separating dot is missing
AppendDefaultTLDNoDot(s) == s \o <<"c", "o", "m">>
\* input = input + ".com"
AppendDefaultTLD(s) == s \o DotCom

Normalize(raw) ==
    LET trimmed == ToLower(TrimSpace(raw)) IN
    IF trimmed = <<>> THEN NormFail(ErrEmptyDomain)
    ELSE
    LET in == IF NeedsDefaultTLD(trimmed) THEN AppendDefaultTLD(trimmed) ELSE trimmed IN
    IF HasSuffix(in, <<".">>) THEN NormFail(ErrInvalidFormat)
    ELSE
    LET parts == Split(in) IN
    IF Len(parts) < 2 THEN NormFail(ErrInvalidFormat)
    ELSE
    LET tld  == parts[Len(parts)]
        name == Join(SubSeq(parts, 1, Len(parts) - 1))
    IN
    IF tld = <<>> THEN NormFail(ErrInvalidFormat)
    ELSE IF name = <<>> THEN NormFail(ErrInvalidFormat)
    ELSE NormOK(Domain(in, name, tld))

-----------------------------------------------------------------------------
(* domain.Result *)

StatusUnknown == "unknown"
StatusAvailable == "available"
StatusTaken == "taken"
StatusError == "error"

\* the zero value of domain.Result
ZeroResult ==
    [Domain |-> ZeroDomain, Status |-> StatusUnknown, Available |-> FALSE,
     Error |-> <<>>, Source |-> "", CheckedAt |-> "zero"]

NilError == <<>>

\* domain.CheckResponse
CheckResponse(rs, checked, available, taken, errors) ==
    [Results |-> rs, Checked |-> checked, Available |-> available, Taken |-> taken,
     Errors |-> errors]

NoResponse == CheckResponse(<<>>, 0, 0, 0, 0)

-----------------------------------------------------------------------------
(* checker.DNSFilter                                                      *)
(* The answer of one lookup is "records" (nil error, at least one         *)
(* record), "empty" (nil error, no record) or "error".                    *)

LookupAnswers == {"records", "empty", "error"}

\* what the resolver can answer under the given state of the context: with a
\* context that is already done every lookup fails
DNSEnvs(ctx) ==
    IF ctx # "none"
    THEN {[ip |-> "error", mx |-> "error", ns |-> "error"]}
    ELSE [ip : LookupAnswers, mx : LookupAnswers, ns : LookupAnswers]

\* faulty variant: only the nameserver lookup is consulted
DNSFilterNSOnly(env) ==
    IF env.ns = "records"
    THEN [likelyAvailable |-> FALSE, shouldSkip |-> TRUE, err |-> NilError]
    ELSE [likelyAvailable |-> TRUE, shouldSkip |-> FALSE, err |-> NilError]
DNSFilter(env) ==
    IF env.ip = "records"
    THEN [likelyAvailable |-> FALSE, shouldSkip |-> TRUE, err |-> NilError]
    ELSE IF env.mx = "records"
    THEN [likelyAvailable |-> FALSE, shouldSkip |-> TRUE, err |-> NilError]
    ELSE IF env.ns = "records"
    THEN [likelyAvailable |-> FALSE, shouldSkip |-> TRUE, err |-> NilError]
    ELSE [likelyAvailable |-> TRUE, shouldSkip |-> FALSE, err |-> NilError]

-----------------------------------------------------------------------------
(* checker.RDAPCheck *)

\* the keys of rdapServers
rdapServers == {<<"c", "o", "m">>, <<"n", "e", "t">>, <<"o", "r", "g">>}

HTTPCodes == {200, 404, 500}

\* values of the "status" member of a response body; <<>> also stands for a
\* body without the member
StatusLists ==
    {<<>>, <<"active">>, <<"registered">>, <<"inactive">>,
     <<"client transfer prohibited", "active">>,
     <<"pending delete", "redemption period">>}

\* what the HTTP exchange can do under the given state of the context:
\* badURL - http.NewRequestWithContext rejects the URL;
\* transport - client.Do fails (always so once the context is done);
\* code, jsonOK, status - the response
RDAPEnvs(ctx) ==
    {e \in [badURL : BOOLEAN, transport : BOOLEAN, code : HTTPCodes,
            jsonOK : BOOLEAN, status : StatusLists] :
        ctx # "none" => e.transport}

RDAPAnswer(available, err) == [available |-> available, err |-> err]

ErrRDAPUnsupported(tld) == <<"RDAP server not configured for TLD: ">> \o tld

\* faulty variant: a list without active/registered is read as available
RDAPStatusAnswerOptimistic(status) ==
    IF Len(status) = 0
    THEN RDAPAnswer(TRUE, NilError)
    ELSE IF \E i \in 1..Len(status) : status[i] = "active" \/ status[i] = "registered"
    THEN RDAPAnswer(FALSE, NilError)
    ELSE RDAPAnswer(TRUE, NilError)
\* the answer for a decoded 200 response, from rdapResp.Status
RDAPStatusAnswer(status) ==
    IF Len(status) = 0
    THEN RDAPAnswer(TRUE, NilError)
    ELSE IF \E i \in 1..Len(status) : status[i] = "active" \/ status[i] = "registered"
    THEN RDAPAnswer(FALSE, NilError)
    ELSE RDAPAnswer(FALSE, NilError)

\* faulty variant: the switch has no default case and falls out as not available
RDAPResponseAnswerNoDefault(env) ==
    IF env.code = 404
    THEN RDAPAnswer(TRUE, NilError)
    ELSE IF env.code = 200
    THEN IF ~env.jsonOK
         THEN RDAPAnswer(FALSE, <<"failed to parse RDAP response: ">>)
         ELSE RDAPStatusAnswer(env.status)
    ELSE RDAPAnswer(FALSE, NilError)
\* switch resp.StatusCode
RDAPResponseAnswer(env) ==
    IF env.code = 404
    THEN RDAPAnswer(TRUE, NilError)
    ELSE IF env.code = 200
    THEN IF ~env.jsonOK
         THEN RDAPAnswer(FALSE, <<"failed to parse RDAP response: ">>)
         ELSE RDAPStatusAnswer(env.status)
    ELSE RDAPAnswer(FALSE, <<"RDAP server returned unexpected status: ", ToString(env.code)>>)

RDAPCheck(d, env) ==
    IF d.TLD \notin rdapServers
    THEN RDAPAnswer(FALSE, ErrRDAPUnsupported(d.TLD))
    ELSE IF env.badURL
    THEN RDAPAnswer(FALSE, <<"failed to create RDAP request: ">>)
    ELSE IF env.transport
    THEN RDAPAnswer(FALSE, <<"RDAP request failed: ">>)
    ELSE RDAPResponseAnswer(env)

\* the number of calls of client.Do that RDAPCheck makes
RDAPRequestsSent(d, env) ==
    IF d.TLD \notin rdapServers THEN 0
    ELSE IF env.badURL THEN 0
    ELSE 1

\* the record of one call of RDAPCheck: the context and domain it was given,
\* what the network did, what it returned and how many requests it sent
RDAPProbe(pc, ctx, d, env) ==
    [pc |-> pc, fn |-> "rdap", ctx |-> ctx, d |-> d, env |-> env,
     out |-> IF pc = "done" THEN RDAPCheck(d, env) ELSE RDAPAnswer(FALSE, <<"not called">>),
     sent |-> IF pc = "done" THEN RDAPRequestsSent(d, env) ELSE 0]

-----------------------------------------------------------------------------
(* checker.WHOISCheck *)

\* what running the whois command can do under the given state of the
\* caller's context:
\* hasAvailable, hasTaken - the combined output contains an available / a
\*     taken indicator;  nonEmpty - len(output) > 0;
\* cmdErr - "nil", "exit" (an *exec.ExitError with exitCode; -1 when the
\*     process was killed), "ctx" (the context was done before the process
\*     started), "exec" (the command could not be run);
\* ctxSeen - ctx.Err() of the derived 10-second context after the command
WHOISEnvs(ctx) ==
    {e \in [hasAvailable : BOOLEAN, hasTaken : BOOLEAN, nonEmpty : BOOLEAN,
            cmdErr : {"nil", "exit", "ctx", "exec"}, exitCode : {-1, 1, 2},
            ctxSeen : {"none", "canceled", "deadline"}] :
        /\ (e.hasAvailable \/ e.hasTaken) => e.nonEmpty
        /\ e.cmdErr \in {"ctx", "exec"} => ~e.nonEmpty
        /\ e.cmdErr # "exit" => e.exitCode = 1
        /\ IF ctx # "none"
           THEN \* the context is done when the command is to start: cmd.Start
                \* returns ctx.Err() and there is no output
                /\ e.ctxSeen = ctx
                /\ e.cmdErr = "ctx"
           ELSE \* the command runs; only the 10-second timeout can end it
                /\ e.ctxSeen \in {"none", "deadline"}
                /\ e.cmdErr # "ctx"
                /\ (e.cmdErr = "exit" /\ e.exitCode = -1) => e.ctxSeen = "deadline"
                /\ e.ctxSeen = "deadline" => e.cmdErr \in {"nil", "exit"}}

WHOISAnswer(available, err) == [available |-> available, err |-> err]

\* faulty variant: the taken indicators are searched first
WHOISIndicatedTakenFirst(env) ==
    IF env.hasTaken THEN "taken"
    ELSE IF env.hasAvailable THEN "available"
    ELSE ""
\* the two loops over availableIndicators and takenIndicators: which of them
\* returns, "" when neither does
WHOISIndicated(env) ==
    IF env.hasAvailable THEN "available"
    ELSE IF env.hasTaken THEN "taken"
    ELSE ""

ErrWHOISTimeout == <<"whois timeout: ", "context deadline exceeded">>

\* faulty variant: the length of the output is not tested
WHOISAfterErrorAnyOutput(env) ==
    IF env.ctxSeen = "deadline"
    THEN WHOISAnswer(FALSE, ErrWHOISTimeout)
    ELSE IF env.cmdErr = "exit" /\ env.exitCode = 1
    THEN WHOISAnswer(FALSE, NilError)
    ELSE WHOISAnswer(FALSE, <<"whois command failed: ">>)
\* faulty variant: ctx.Err() is not tested
WHOISAfterErrorNoDeadlineTest(env) ==
    IF env.cmdErr = "exit" /\ env.exitCode = 1 /\ env.nonEmpty
    THEN WHOISAnswer(FALSE, NilError)
    ELSE WHOISAnswer(FALSE, <<"whois command failed: ">>)
\* if cmdErr != nil { ... }
WHOISAfterError(env) ==
    IF env.ctxSeen = "deadline"
    THEN WHOISAnswer(FALSE, ErrWHOISTimeout)
    ELSE IF env.cmdErr = "exit" /\ env.exitCode = 1 /\ env.nonEmpty
    THEN WHOISAnswer(FALSE, NilError)
    ELSE WHOISAnswer(FALSE, <<"whois command failed: ">>)

\* faulty variant: a command that failed without an indicator counts as taken
WHOISCheckErrorMeansTaken(env) ==
    IF WHOISIndicated(env) = "available" THEN WHOISAnswer(TRUE, NilError)
    ELSE IF WHOISIndicated(env) = "taken" THEN WHOISAnswer(FALSE, NilError)
    ELSE IF env.cmdErr # "nil" THEN WHOISAnswer(FALSE, NilError)
    ELSE IF env.nonEmpty THEN WHOISAnswer(FALSE, NilError)
    ELSE WHOISAnswer(FALSE, <<"whois returned no output">>)

WHOISCheck(env) ==
    IF WHOISIndicated(env) = "available" THEN WHOISAnswer(TRUE, NilError)
    ELSE IF WHOISIndicated(env) = "taken" THEN WHOISAnswer(FALSE, NilError)
    ELSE IF env.cmdErr # "nil" THEN WHOISAfterError(env)
    ELSE IF env.nonEmpty THEN WHOISAnswer(FALSE, NilError)
    ELSE WHOISAnswer(FALSE, <<"whois returned no output">>)

\* the record of one call of DNSFilter
DNSProbe(pc, ctx, d, env) ==
    [pc |-> pc, fn |-> "dns", ctx |-> ctx, d |-> d, env |-> env,
     out |-> IF pc = "done" THEN DNSFilter(env)
             ELSE [likelyAvailable |-> FALSE, shouldSkip |-> FALSE, err |-> <<"not called">>]]

\* the record of one call of WHOISCheck
WHOISProbe(pc, ctx, d, env) ==
    [pc |-> pc, fn |-> "whois", ctx |-> ctx, d |-> d, env |-> env,
     out |-> IF pc = "done" THEN WHOISCheck(env) ELSE WHOISAnswer(FALSE, <<"not called">>)]


-----------------------------------------------------------------------------
(* Specification of Normalize as a pure function: the input is drawn from *)
(* all strings over Alphabet of length at most MaxLen.                    *)

NoResult == NormFail("not called")

\* no prober is called on its own
NoProbe == [pc |-> "unused"]

\* csrfStore.tokens as initialised: make(map[string]csrfToken)
NoTokens == [t \in {} |-> "fresh"]

\* no request carries a token and none is stored
NoCSRF ==
    /\ csrfHeader = ""
    /\ csrfTokens = NoTokens
    /\ csrfCalls = <<>>
    /\ csrfIssued = 0

\* no single-domain request is being handled
NoRequest == [Method |-> "", Path |-> <<>>]

NoSingle == httpReq = NoRequest

\* no handler call is followed for its slots alone
NoSlots == batches = <<>>

\* no batch request is being handled
NoBatch ==
    /\ NoCSRF
    /\ NoSingle
    /\ NoSlots
    /\ req = <<>>
    /\ hpc = "unused"
    /\ httpStatus = 0
    /\ normalizedDomains = <<>>
    /\ normErrors = <<>>
    /\ results = <<>>
    /\ upc = <<>>
    /\ sem = 0
    /\ response = NoResponse
    /\ produced = <<>>

InitNormalize ==
    /\ input \in StringsUpTo(MaxLen)
    /\ npc = "start"
    /\ nres = NoResult
    /\ nres2 = NoResult
    /\ probe = NoProbe
    /\ ctxErr = "none"
    /\ call = <<>>
    /\ NoBatch

\* d, err := domain.Normalize(input)
NormalizeCall ==
    /\ npc = "start"
    /\ nres' = Normalize(input)
    /\ npc' = "normalized"
    /\ UNCHANGED <<input, nres2, probe, checkVars, batchVars, csrfVars, singleVars, slotVars>>

\* d2, err2 := domain.Normalize(d.Full), for a successful first call
NormalizeAgain ==
    /\ npc = "normalized"
    /\ nres.err = ErrNone
    /\ nres2' = Normalize(nres.d.Full)
    /\ npc' = "renormalized"
    /\ UNCHANGED <<input, nres, probe, checkVars, batchVars, csrfVars, singleVars, slotVars>>

NextNormalize == NormalizeCall \/ NormalizeAgain

SpecNormalize == InitNormalize /\ [][NextNormalize]_vars

-----------------------------------------------------------------------------
(* checker.Check: the DNS -> RDAP -> WHOIS cascade, one step per stage.   *)
(* A frame holds the position of one activation, its argument, its        *)
(* result value, what each prober returned to it and the probers it has   *)
(* invoked, in order.                                                     *)

NotCalled == <<"not called">>

IdleCall ==
    [pc |-> "idle", d |-> ZeroDomain, result |-> ZeroResult, err |-> NilError,
     dns |-> [likelyAvailable |-> FALSE, shouldSkip |-> FALSE, err |-> NotCalled],
     rdap |-> RDAPAnswer(FALSE, NotCalled),
     whois |-> WHOISAnswer(FALSE, NotCalled),
     invoked |-> <<>>]

\* start := time.Now(); result := domain.Result{Domain: d, CheckedAt: start}
EnterCheck(d) ==
    [IdleCall EXCEPT !.pc = "dns", !.d = d,
                     !.result = [ZeroResult EXCEPT !.Domain = d, !.CheckedAt = "start"]]

\* faulty variant: tests likelyAvailable instead of shouldSkip
DNSDefinitiveByLikely(dns) == dns.err = NilError /\ dns.likelyAvailable
\* if err != nil { } else if shouldSkip {
DNSDefinitive(dns) == dns.err = NilError /\ dns.shouldSkip

\* faulty variant: the DNS stage answers with what likelyAvailable suggests
VerdictDNSOptimistic(result) ==
    [result EXCEPT !.Status = StatusAvailable, !.Available = TRUE, !.Source = "dns"]

\* result.Status = StatusTaken; result.Available = false; result.Source = "dns"
VerdictDNS(result) ==
    [result EXCEPT !.Status = StatusTaken, !.Available = FALSE, !.Source = "dns"]

\* faulty variant: result.Available is not assigned
VerdictRDAPStatusOnly(result, available) ==
    [result EXCEPT !.Status = IF available THEN StatusAvailable ELSE StatusTaken,
                   !.Source = "rdap"]
\* result.Status, result.Available and result.Source after RDAP answered
VerdictRDAP(result, available) ==
    [result EXCEPT !.Status = IF available THEN StatusAvailable ELSE StatusTaken,
                   !.Available = available,
                   !.Source = "rdap"]

\* faulty variant: the RDAP block copied without changing the source
VerdictWHOISWrongSource(result, available) ==
    [result EXCEPT !.Status = IF available THEN StatusAvailable ELSE StatusTaken,
                   !.Available = available,
                   !.Source = "rdap"]
VerdictWHOIS(result, available) ==
    [result EXCEPT !.Status = IF available THEN StatusAvailable ELSE StatusTaken,
                   !.Available = available,
                   !.Source = "whois"]

\* faulty variant: Status is left at its zero value
VerdictFailedNoStatus(result, err) ==
    [result EXCEPT !.Available = FALSE,
                   !.Error = <<"all checks failed, last error: ">> \o err,
                   !.Source = "whois"]
\* faulty variant: the failure branch does not name its stage
VerdictFailedNoSource(result, err) ==
    [result EXCEPT !.Status = StatusError,
                   !.Available = FALSE,
                   !.Error = <<"all checks failed, last error: ">> \o err]
VerdictFailed(result, err) ==
    [result EXCEPT !.Status = StatusError,
                   !.Available = FALSE,
                   !.Error = <<"all checks failed, last error: ">> \o err,
                   !.Source = "whois"]

\* fmt.Errorf("domain check failed: %w", err)
ErrCheckFailed(err) == <<"domain check failed: ">> \o err

\* Step 1: DNS pre-filter - the frames the call can be in after it
DNSStage(f, ctx) ==
    {LET dns == DNSFilter(env)
         g   == [f EXCEPT !.dns = dns, !.invoked = Append(f.invoked, "dns")]
     IN  IF DNSDefinitive(dns)
         THEN [g EXCEPT !.pc = "returned", !.result = VerdictDNS(f.result), !.err = NilError]
         ELSE [g EXCEPT !.pc = "rdap"]
     : env \in DNSEnvs(ctx)}

\* faulty variant: a failed RDAP query is tried a second time
RDAPStepRetryOnce(f, env) ==
    LET rdap == RDAPCheck(f.d, env)
        g    == [f EXCEPT !.rdap = rdap, !.invoked = Append(f.invoked, "rdap")]
    IN  IF rdap.err = NilError
        THEN [g EXCEPT !.pc = "returned", !.result = VerdictRDAP(f.result, rdap.available),
                       !.err = NilError]
        ELSE IF Len(f.invoked) < 2 THEN [g EXCEPT !.pc = "rdap"] ELSE [g EXCEPT !.pc = "whois"]

\* Step 2: RDAP - the frame after RDAPCheck has met the exchange env
RDAPStep(f, env) ==
    LET rdap == RDAPCheck(f.d, env)
        g    == [f EXCEPT !.rdap = rdap, !.invoked = Append(f.invoked, "rdap")]
    IN  IF rdap.err = NilError
        THEN [g EXCEPT !.pc = "returned", !.result = VerdictRDAP(f.result, rdap.available),
                       !.err = NilError]
        ELSE [g EXCEPT !.pc = "whois"]

RDAPStage(f, ctx) == {RDAPStep(f, env) : env \in RDAPEnvs(ctx)}

\* Step 3: WHOIS fallback
WHOISStage(f, ctx) ==
    {LET whois == WHOISCheck(env)
         g     == [f EXCEPT !.whois = whois, !.invoked = Append(f.invoked, "whois"),
                            !.pc = "returned"]
     IN  IF whois.err # NilError
         THEN [g EXCEPT !.result = VerdictFailed(f.result, whois.err),
                        !.err = ErrCheckFailed(whois.err)]
         ELSE [g EXCEPT !.result = VerdictWHOIS(f.result, whois.available),
                        !.err = NilError]
     : env \in WHOISEnvs(ctx)}

\* the next stage of a call that has not returned
CheckStage(f, ctx) ==
    CASE f.pc = "dns" -> DNSStage(f, ctx)
      [] f.pc = "rdap" -> RDAPStage(f, ctx)
      [] f.pc = "whois" -> WHOISStage(f, ctx)
      [] OTHER -> {}

CheckDNS(i) ==
    /\ call[i].pc = "dns"
    /\ \E g \in DNSStage(call[i], ctxErr) : call' = [call EXCEPT ![i] = g]

CheckRDAP(i) ==
    /\ call[i].pc = "rdap"
    /\ \E g \in RDAPStage(call[i], ctxErr) : call' = [call EXCEPT ![i] = g]

CheckWHOIS(i) ==
    /\ call[i].pc = "whois"
    /\ \E g \in WHOISStage(call[i], ctxErr) : call' = [call EXCEPT ![i] = g]

-----------------------------------------------------------------------------
(* The request context *)

\* the context is cancelled (client gone, cancel() called)
CtxCancel ==
    /\ ctxErr = "none"
    /\ ctxErr' = "canceled"

\* the deadline of the context passes
CtxDeadline ==
    /\ ctxErr = "none"
    /\ ctxErr' = "deadline"

-----------------------------------------------------------------------------
(* Raw inputs of the handlers and the domains Check is called with *)

trucore == <<"t", "r", "u", "c", "o", "r", "e">>
exampleOrg == <<"e", "x", "a", "m", "p", "l", "e", ".", "o", "r", "g">>
badCom == <<"-", "b", "a", "d", ".", "c", "o", "m">>
upperNet == <<" ", "X", ".", "N", "E", "T", " ">>
aUK == <<"a", ".", "c", "o", ".", "u", "k">>
trailingDot == <<"e", "x", "a", "m", "p", "l", "e", ".">>
invalidDots == <<"i", "n", "v", "a", "l", "i", "d", ".", ".", "d", "o", "m", "a", "i", "n">>

RawInputs == {trucore, exampleOrg, badCom, upperNet, aUK, trailingDot, invalidDots, <<>>}

CheckDomains == {Normalize(x).d : x \in {y \in RawInputs : Normalize(y).err = ErrNone}}

-----------------------------------------------------------------------------
(* domain.NormalizeBatch: two pre-sized slices filled by one loop *)

RECURSIVE NormalizeBatchLoop(_, _, _, _)
\* for i, input := range inputs { domains[i], errs[i] = Normalize(input) }
NormalizeBatchLoop(inputs, i, domains, errs) ==
    IF i > Len(inputs)
    THEN [domains |-> domains, errs |-> errs]
    ELSE NormalizeBatchLoop(inputs, i + 1,
                            [domains EXCEPT ![i] = Normalize(inputs[i]).d],
                            [errs EXCEPT ![i] = Normalize(inputs[i]).err])

\* faulty variant: the loop ends at the first input that fails
NormalizeBatchStopsAtError(inputs) ==
    LET failing == {i \in 1..Len(inputs) : Normalize(inputs[i]).err # ErrNone}
        reached(i) == \A j \in failing : i <= j
    IN  [domains |-> [i \in 1..Len(inputs) |->
                        IF reached(i) THEN Normalize(inputs[i]).d ELSE ZeroDomain],
         errs |-> [i \in 1..Len(inputs) |->
                        IF reached(i) THEN Normalize(inputs[i]).err ELSE ErrNone]]

\* domains := make([]Domain, len(inputs)); errs := make([]error, len(inputs))
NormalizeBatch(inputs) ==
    NormalizeBatchLoop(inputs, 1, [i \in 1..Len(inputs) |-> ZeroDomain],
                       [i \in 1..Len(inputs) |-> ErrNone])

\* longest argument NormalizeBatch is called with on its own
MaxInputs == 3

RECURSIVE InputsUpTo(_)
InputsUpTo(n) ==
    IF n = 0 THEN {<<>>}
    ELSE InputsUpTo(n - 1) \cup
         {Append(xs, x) : xs \in {ys \in InputsUpTo(n - 1) : Len(ys) = n - 1}, x \in RawInputs}

InitNormalizeBatch ==
    /\ input = <<>>
    /\ npc = "start"
    /\ nres = NoResult
    /\ nres2 = NoResult
    /\ probe = NoProbe
    /\ ctxErr = "none"
    /\ call = <<>>
    /\ req \in InputsUpTo(MaxInputs)
    /\ hpc = "unused"
    /\ httpStatus = 0
    /\ normalizedDomains = <<>>
    /\ normErrors = <<>>
    /\ results = <<>>
    /\ upc = <<>>
    /\ sem = 0
    /\ response = NoResponse
    /\ produced = <<>>
    /\ NoCSRF
    /\ NoSingle
    /\ NoSlots

\* domains, errs := domain.NormalizeBatch(inputs)
NormalizeBatchCall ==
    /\ npc = "start"
    /\ normalizedDomains' = NormalizeBatch(req).domains
    /\ normErrors' = NormalizeBatch(req).errs
    /\ npc' = "normalized"
    /\ UNCHANGED <<input, nres, nres2, probe, checkVars, csrfVars, singleVars, slotVars, req, hpc,
                   httpStatus, results, upc, sem, response, produced>>

NextNormalizeBatch == NormalizeBatchCall

SpecNormalizeBatch == InitNormalizeBatch /\ [][NextNormalizeBatch]_vars

-----------------------------------------------------------------------------
(* Specification of one call of Check, as the checker tests make it: any  *)
(* normalized domain, a context that may be done before or during it.     *)

Caller == 1

InitCheck ==
    /\ input = <<>>
    /\ npc = "unused"
    /\ nres = NoResult
    /\ nres2 = NoResult
    /\ probe = NoProbe
    /\ ctxErr \in {"none", "canceled", "deadline"}
    /\ call = [i \in {Caller} |-> IdleCall]
    /\ NoBatch

\* result, err := checker.Check(ctx, d)
CallCheck ==
    /\ call[Caller].pc = "idle"
    /\ \E d \in CheckDomains : call' = [call EXCEPT ![Caller] = EnterCheck(d)]
    /\ UNCHANGED <<normVars, csrfVars, singleVars, slotVars, ctxErr, batchVars>>

StepDNS == CheckDNS(Caller) /\ UNCHANGED <<normVars, csrfVars, singleVars, slotVars, ctxErr, batchVars>>

\* the RDAP stage; probe keeps the exchange RDAPCheck had
StepRDAP ==
    /\ call[Caller].pc = "rdap"
    /\ \E env \in RDAPEnvs(ctxErr) :
          /\ call' = [call EXCEPT ![Caller] = RDAPStep(call[Caller], env)]
          /\ probe' = RDAPProbe("done", ctxErr, call[Caller].d, env)
    /\ UNCHANGED <<input, npc, nres, nres2, ctxErr, batchVars, csrfVars, singleVars, slotVars>>

StepWHOIS == CheckWHOIS(Caller) /\ UNCHANGED <<normVars, csrfVars, singleVars, slotVars, ctxErr, batchVars>>

CancelDuringCheck == CtxCancel /\ UNCHANGED <<normVars, csrfVars, singleVars, slotVars, call, batchVars>>

DeadlineDuringCheck == CtxDeadline /\ UNCHANGED <<normVars, csrfVars, singleVars, slotVars, call, batchVars>>

NextCheck ==
    \/ CallCheck
    \/ StepDNS
    \/ StepRDAP
    \/ StepWHOIS
    \/ CancelDuringCheck
    \/ DeadlineDuringCheck

SpecCheck == InitCheck /\ [][NextCheck]_vars

\* Check called with a context that is done already
\* (ctx, cancel := context.WithCancel(...); cancel(), or an expired deadline)
InitCancelled ==
    /\ InitCheck
    /\ ctxErr # "none"

NextCancelled ==
    \/ CallCheck
    \/ StepDNS
    \/ StepRDAP
    \/ StepWHOIS

SpecCancelled == InitCancelled /\ [][NextCancelled]_vars

-----------------------------------------------------------------------------
(* Specification of the probers as functions of the exchange they have    *)
(* with the network: a normalized domain, a state of the context and an   *)
(* environment the context allows are drawn, and the prober is applied.   *)

InitProbers ==
    /\ input = <<>>
    /\ npc = "unused"
    /\ nres = NoResult
    /\ nres2 = NoResult
    /\ ctxErr \in {"none", "canceled", "deadline"}
    /\ probe \in {DNSProbe("start", ctxErr, d, e) : d \in CheckDomains, e \in DNSEnvs(ctxErr)}
                  \cup {RDAPProbe("start", ctxErr, d, e) : d \in CheckDomains, e \in RDAPEnvs(ctxErr)}
                  \cup {WHOISProbe("start", ctxErr, d, e) : d \in CheckDomains, e \in WHOISEnvs(ctxErr)}
    /\ call = <<>>
    /\ NoBatch

\* available, err := RDAPCheck(ctx, d)
CallRDAPCheck ==
    /\ probe.pc = "start"
    /\ probe.fn = "rdap"
    /\ probe' = RDAPProbe("done", ctxErr, probe.d, probe.env)
    /\ UNCHANGED <<input, npc, nres, nres2, checkVars, batchVars, csrfVars, singleVars, slotVars>>

\* likelyAvailable, shouldSkip, err := DNSFilter(ctx, d)
CallDNSFilter ==
    /\ probe.pc = "start"
    /\ probe.fn = "dns"
    /\ probe' = DNSProbe("done", ctxErr, probe.d, probe.env)
    /\ UNCHANGED <<input, npc, nres, nres2, checkVars, batchVars, csrfVars, singleVars, slotVars>>

\* available, err := WHOISCheck(ctx, d)
CallWHOISCheck ==
    /\ probe.pc = "start"
    /\ probe.fn = "whois"
    /\ probe' = WHOISProbe("done", ctxErr, probe.d, probe.env)
    /\ UNCHANGED <<input, npc, nres, nres2, checkVars, batchVars, csrfVars, singleVars, slotVars>>

NextProbers == CallDNSFilter \/ CallRDAPCheck \/ CallWHOISCheck

SpecProbers == InitProbers /\ [][NextProbers]_vars

-----------------------------------------------------------------------------
(* server.CheckDomainsHandler: POST /check                                *)

\* maxDomainsPerRequest = 100 in the source; scaled down so that batches at
\* and above the limit can be explored
maxDomainsPerRequest == 3

\* maxConcurrent = 10 in the source; scaled down below the batch size so that
\* goroutines contend for the semaphore
maxConcurrent == 2

\* the bodies explored: every run of up to maxDomainsPerRequest + 1
\* consecutive entries of RequestPool, taken cyclically from every start
RequestPool == <<trucore, exampleOrg, badCom, aUK, trailingDot>>

Window(start, len) ==
    [k \in 1..len |-> RequestPool[((start + k - 2) % Len(RequestPool)) + 1]]

Requests ==
    {Window(start, len) : start \in 1..Len(RequestPool), len \in 0..(maxDomainsPerRequest + 1)}

Units == DOMAIN upc

InitBatch ==
    /\ input = <<>>
    /\ npc = "unused"
    /\ nres = NoResult
    /\ nres2 = NoResult
    /\ probe = NoProbe
    /\ ctxErr = "none"
    /\ call = <<>>
    /\ req \in Requests
    /\ hpc = "recv"
    /\ httpStatus = 0
    /\ normalizedDomains = <<>>
    /\ normErrors = <<>>
    /\ results = <<>>
    /\ upc = <<>>
    /\ sem = 0
    /\ response = NoResponse
    /\ produced = <<>>
    /\ NoCSRF
    /\ NoSingle
    /\ NoSlots

\* if len(req.Domains) == 0
EmptyBatch(domains) == Len(domains) = 0

\* faulty variant: the limit itself is refused
TooManyDomainsAtLimit(domains) == Len(domains) >= maxDomainsPerRequest
\* if len(req.Domains) > maxDomainsPerRequest
TooManyDomains(domains) == Len(domains) > maxDomainsPerRequest

\* the body http.Error writes
HTTPError(msg) == [Text |-> msg]

ErrNoDomains == HTTPError(<<"No domains provided">>)

ErrMaximumDomains ==
    HTTPError(<<"Maximum ", ToString(maxDomainsPerRequest), " domains per request">>)

\* the request is validated; a valid one is normalized, the result slice is
\* allocated and one goroutine per input is started (handlers.go 72-101)
ValidateAndDispatch ==
    /\ hpc = "recv"
    /\ IF EmptyBatch(req) \/ TooManyDomains(req)
       THEN /\ hpc' = "rejected"
            /\ httpStatus' = 400
            /\ response' = IF EmptyBatch(req) THEN ErrNoDomains ELSE ErrMaximumDomains
            /\ UNCHANGED <<normalizedDomains, normErrors, results, upc, sem, produced, call>>
       ELSE /\ hpc' = "waiting"
            /\ normalizedDomains' = NormalizeBatch(req).domains
            /\ normErrors' = NormalizeBatch(req).errs
            /\ results' = [i \in 1..Len(req) |-> ZeroResult]
            /\ upc' = [i \in 1..Len(req) |-> "select"]
            /\ call' = [i \in 1..Len(req) |-> IdleCall]
            /\ produced' = [i \in 1..Len(req) |-> ZeroResult]
            /\ sem' = 0
            /\ UNCHANGED <<httpStatus, response>>
    /\ UNCHANGED <<normVars, csrfVars, singleVars, slotVars, ctxErr, req>>

\* faulty variant: the cancellation case returns without assigning results[idx]
CancelledResultUnwritten(idx) == ZeroResult

\* faulty variant: the cancelled verdict has a status but no message
CancelledResultNoMessage(idx) ==
    [ZeroResult EXCEPT !.Domain = normalizedDomains[idx], !.Status = StatusError,
                       !.Available = FALSE]

\* domain.Result{Domain: normalizedDomains[idx], Status: StatusError, Error: "request cancelled"}
CancelledResult(idx) ==
    [ZeroResult EXCEPT !.Domain = normalizedDomains[idx], !.Status = StatusError,
                       !.Available = FALSE, !.Error = <<"request cancelled">>]

\* faulty variant: the verdict carries the (zero) normalized domain
InvalidResultNormalized(idx) ==
    [ZeroResult EXCEPT !.Domain = normalizedDomains[idx], !.Status = StatusError,
                       !.Available = FALSE, !.Error = <<"invalid domain format">>]

\* domain.Result{Domain: domain.Domain{Full: req.Domains[idx]}, Status: StatusError, ...}
InvalidResult(idx) ==
    [ZeroResult EXCEPT !.Domain = Domain(req[idx], <<>>, <<>>), !.Status = StatusError,
                       !.Available = FALSE, !.Error = <<"invalid domain format">>]

\* faulty variant: appends in completion order instead of writing at idx
WriteResultAppend(rs, idx, v) ==
    [rs EXCEPT ![Cardinality({k \in DOMAIN rs : rs[k] # ZeroResult}) + 1] = v]
\* results[idx] = v
WriteResult(rs, idx, v) == [rs EXCEPT ![idx] = v]

\* faulty variant: the channel is made one element too large
CanSendOneMore(n) == n <= maxConcurrent
\* a send on sem := make(chan struct{}, maxConcurrent) can proceed
CanSend(n) == n < maxConcurrent

\* select: case sem <- struct{}{} - the slot is taken; then either the
\* normalization error is reported or Check is entered
UnitAcquire(idx) ==
    /\ hpc = "waiting"
    /\ upc[idx] = "select"
    /\ CanSend(sem)
    /\ sem' = sem + 1
    /\ IF normErrors[idx] # ErrNone
       THEN /\ results' = WriteResult(results, idx, InvalidResult(idx))
            /\ produced' = [produced EXCEPT ![idx] = InvalidResult(idx)]
            /\ upc' = [upc EXCEPT ![idx] = "exit"]
            /\ UNCHANGED call
       ELSE /\ call' = [call EXCEPT ![idx] = EnterCheck(normalizedDomains[idx])]
            /\ upc' = [upc EXCEPT ![idx] = "checking"]
            /\ UNCHANGED <<results, produced>>
    /\ UNCHANGED <<normVars, csrfVars, singleVars, slotVars, ctxErr, req, hpc, httpStatus, normalizedDomains, normErrors,
                   response>>

\* select: case <-ctx.Done() - the goroutine reports the cancellation and
\* ends (wg.Done) without a slot
UnitCancelled(idx) ==
    /\ hpc = "waiting"
    /\ upc[idx] = "select"
    /\ ctxErr # "none"
    /\ results' = WriteResult(results, idx, CancelledResult(idx))
    /\ produced' = [produced EXCEPT ![idx] = CancelledResult(idx)]
    /\ upc' = [upc EXCEPT ![idx] = "done"]
    /\ UNCHANGED <<normVars, csrfVars, singleVars, slotVars, checkVars, req, hpc, httpStatus, normalizedDomains, normErrors,
                   sem, response>>

\* result, err := checker.Check(ctx, normalizedDomains[idx]): the next stage
\* of the call; when it returns, results[idx] = result (on both branches)
UnitCheck(idx) ==
    /\ hpc = "waiting"
    /\ upc[idx] = "checking"
    /\ \E g \in CheckStage(call[idx], ctxErr) :
          IF g.pc = "returned"
          THEN /\ results' = WriteResult(results, idx, g.result)
               /\ produced' = [produced EXCEPT ![idx] = g.result]
               /\ call' = [call EXCEPT ![idx] = IdleCall]
               /\ upc' = [upc EXCEPT ![idx] = "exit"]
          ELSE /\ call' = [call EXCEPT ![idx] = g]
               /\ UNCHANGED <<results, produced, upc>>
    /\ UNCHANGED <<normVars, csrfVars, singleVars, slotVars, ctxErr, req, hpc, httpStatus, normalizedDomains, normErrors,
                   sem, response>>

\* the deferred calls of the goroutine, in order: <-sem, then wg.Done()
UnitExit(idx) ==
    /\ hpc = "waiting"
    /\ upc[idx] = "exit"
    /\ sem > 0
    /\ sem' = sem - 1
    /\ upc' = [upc EXCEPT ![idx] = "done"]
    /\ UNCHANGED <<normVars, csrfVars, singleVars, slotVars, checkVars, req, hpc, httpStatus, normalizedDomains, normErrors,
                   results, response, produced>>

\* faulty variant: only the failures of the cascade are counted
CountsAsErrorCascadeOnly(res) == res.Error # <<>> /\ res.Source = "whois"
\* if res.Error != ""
CountsAsError(res) == res.Error # <<>>

CountsAsAvailable(res) == res.Error = <<>> /\ res.Available

\* faulty variant: the taken branch is not an else branch
CountsAsTakenNoElse(res) == ~res.Available
CountsAsTaken(res) == res.Error = <<>> /\ ~res.Available

\* the counting loop over results
Aggregate(rs) ==
    CheckResponse(rs, Len(rs),
                  Cardinality({k \in DOMAIN rs : CountsAsAvailable(rs[k])}),
                  Cardinality({k \in DOMAIN rs : CountsAsTaken(rs[k])}),
                  Cardinality({k \in DOMAIN rs : CountsAsError(rs[k])}))

\* faulty variant: wg.Done() runs when the goroutine starts, not when it ends
WaitReturnsOnceStarted == \A idx \in Units : upc[idx] # "select"
\* wg.Wait() can return: every goroutine has called wg.Done()
WaitReturns == \A idx \in Units : upc[idx] = "done"

\* wg.Wait() returns; the response is built and encoded
Respond ==
    /\ hpc = "waiting"
    /\ WaitReturns
    /\ response' = Aggregate(results)
    /\ httpStatus' = 200
    /\ hpc' = "responded"
    /\ UNCHANGED <<normVars, csrfVars, singleVars, slotVars, checkVars, req, normalizedDomains, normErrors, results, upc, sem,
                   produced>>

\* the client goes away while the request is handled
ClientGone ==
    /\ hpc \in {"recv", "waiting"}
    /\ CtxCancel
    /\ UNCHANGED <<normVars, csrfVars, singleVars, slotVars, call, batchVars>>

\* requestTimeout passes while the request is handled
RequestTimeout ==
    /\ hpc = "waiting"
    /\ CtxDeadline
    /\ UNCHANGED <<normVars, csrfVars, singleVars, slotVars, call, batchVars>>

Acquire == \E idx \in Units : UnitAcquire(idx)
Cancelled == \E idx \in Units : UnitCancelled(idx)
Checking == \E idx \in Units : UnitCheck(idx)
Exit == \E idx \in Units : UnitExit(idx)

Next ==
    \/ ValidateAndDispatch
    \/ Acquire
    \/ Cancelled
    \/ Checking
    \/ Exit
    \/ Respond
    \/ ClientGone
    \/ RequestTimeout

Spec == InitBatch /\ [][Next]_vars

-----------------------------------------------------------------------------
(* POST /check with an X-CSRF-Token header: the batch handler on requests *)
(* of at most one domain, with every header value and every content of    *)
(* the token store.                                                       *)

\* header values: none or empty, the token generateCSRFToken stored, a
\* string that was never stored
HeaderValues == {"", "tokA", "invalid-token-12345"}

\* contents of csrfStore.tokens: empty, the generated token before and
\* after csrfTokenExpiry has passed
TokenStores == {NoTokens, [t \in {"tokA"} |-> "fresh"], [t \in {"tokA"} |-> "expired"]}

\* faulty variant: the expiry of a stored token is not looked at
ValidateCSRFTokenIgnoresExpiry(token, tokens) ==
    IF token = "" THEN FALSE
    ELSE IF token \notin DOMAIN tokens THEN FALSE
    ELSE TRUE

\* the value ValidateCSRFToken returns
ValidateCSRFToken(token, tokens) ==
    IF token = "" THEN FALSE
    ELSE IF token \notin DOMAIN tokens THEN FALSE
    ELSE IF tokens[token] = "expired" THEN FALSE
    ELSE TRUE

InitCSRF ==
    /\ input = <<>>
    /\ npc = "unused"
    /\ nres = NoResult
    /\ nres2 = NoResult
    /\ probe = NoProbe
    /\ ctxErr = "none"
    /\ call = <<>>
    /\ req \in {Window(start, len) : start \in 1..Len(RequestPool), len \in 0..1}
    /\ hpc = "recv"
    /\ httpStatus = 0
    /\ normalizedDomains = <<>>
    /\ normErrors = <<>>
    /\ results = <<>>
    /\ upc = <<>>
    /\ sem = 0
    /\ response = NoResponse
    /\ produced = <<>>
    /\ csrfHeader \in HeaderValues
    /\ csrfTokens \in TokenStores
    /\ csrfCalls = <<>>
    /\ csrfIssued = Cardinality(DOMAIN csrfTokens)
    /\ NoSingle
    /\ NoSlots

SpecCSRF == InitCSRF /\ [][Next]_vars

-----------------------------------------------------------------------------
(* The CSRF token store: generateCSRFToken, ValidateCSRFToken and the     *)
(* cleanup goroutine, called from concurrent request goroutines.  A token *)
(* is a name rand.Read has not produced before; the store keeps, for each *)
(* token, whether time.Now() is still before its expiresAt.               *)

\* maxCSRFTokens = 10000 in the source; the limit of the model
maxCSRFTokens == 2

\* goroutines calling into the store at the same time
NumCallers == 2

StoreCallers == 1..NumCallers

\* the tokens hex.EncodeToString(bytes) yields, in the order of their making
TokenNames == <<"tokA", "tokB", "tokC", "tokD", "tokE">>

\* what a client may present: nothing, a token of the server, a made-up one
PresentedTokens == {"", "invalid-token-12345"} \cup {TokenNames[k] : k \in 1..Len(TokenNames)}

IdleStoreCall == [pc |-> "idle", fn |-> "", token |-> "", ok |-> FALSE, err |-> NilError,
                  tokenCount |-> 0]

\* fmt.Errorf("CSRF token limit exceeded (%d active tokens)", maxCSRFTokens)
ErrTokenLimit ==
    <<"CSRF token limit exceeded (", ToString(maxCSRFTokens), " active tokens)">>

\* if tokenCount >= maxCSRFTokens
AtTokenLimit(tokenCount) == tokenCount >= maxCSRFTokens

\* csrfStore.tokens[tokenStr] = csrfToken{token: tokenStr, expiresAt: expiresAt}
StoreToken(tokens, tokenStr) ==
    [t \in DOMAIN tokens \cup {tokenStr} |-> IF t = tokenStr THEN "fresh" ELSE tokens[t]]

\* delete(csrfStore.tokens, token)
DeleteToken(tokens, token) == [t \in DOMAIN tokens \ {token} |-> tokens[t]]

\* the store ValidateCSRFToken leaves behind: an expired token is deleted
StoreAfterValidate(token, tokens) ==
    IF token # "" /\ token \in DOMAIN tokens /\ tokens[token] = "expired"
    THEN DeleteToken(tokens, token)
    ELSE tokens

\* the loop body of cleanupExpiredTokens, under the write lock
StoreAfterCleanup(tokens) ==
    [t \in {u \in DOMAIN tokens : tokens[u] # "expired"} |-> tokens[t]]

InitStore ==
    /\ input = <<>>
    /\ npc = "unused"
    /\ nres = NoResult
    /\ nres2 = NoResult
    /\ probe = NoProbe
    /\ ctxErr = "none"
    /\ call = <<>>
    /\ req = <<>>
    /\ hpc = "unused"
    /\ httpStatus = 0
    /\ normalizedDomains = <<>>
    /\ normErrors = <<>>
    /\ results = <<>>
    /\ upc = <<>>
    /\ sem = 0
    /\ response = NoResponse
    /\ produced = <<>>
    /\ NoSingle
    /\ NoSlots
    /\ csrfHeader = ""
    /\ csrfTokens = NoTokens
    /\ csrfCalls = [c \in StoreCallers |-> IdleStoreCall]
    /\ csrfIssued = 0

StoreIdle(c) == csrfCalls[c].pc \in {"idle", "returned"}

\* generateCSRFToken up to the limit test: the count is read under RLock
GenerateCount(c) ==
    /\ StoreIdle(c)
    /\ LET tokenCount == Cardinality(DOMAIN csrfTokens)
       IN  csrfCalls' = [csrfCalls EXCEPT ![c] =
               IF AtTokenLimit(tokenCount)
               THEN [IdleStoreCall EXCEPT !.pc = "returned", !.fn = "generate",
                                          !.err = ErrTokenLimit, !.tokenCount = tokenCount]
               ELSE [IdleStoreCall EXCEPT !.pc = "counted", !.fn = "generate",
                                          !.tokenCount = tokenCount]]
    /\ UNCHANGED <<normVars, checkVars, batchVars, singleVars, slotVars, csrfHeader, csrfTokens,
                   csrfIssued>>

\* the rest of generateCSRFToken: rand.Read, then the insertion under Lock
GenerateStore(c) ==
    /\ csrfCalls[c].pc = "counted"
    /\ \/ /\ csrfCalls' = [csrfCalls EXCEPT ![c].pc = "returned",
                                             ![c].err = <<"rand.Read failed">>]
          /\ UNCHANGED <<csrfTokens, csrfIssued>>
       \/ /\ csrfIssued < Len(TokenNames)
          /\ LET tokenStr == TokenNames[csrfIssued + 1]
             IN  /\ csrfTokens' = StoreToken(csrfTokens, tokenStr)
                 /\ csrfCalls' = [csrfCalls EXCEPT ![c].pc = "returned", ![c].ok = TRUE,
                                                   ![c].token = tokenStr]
          /\ csrfIssued' = csrfIssued + 1
    /\ UNCHANGED <<normVars, checkVars, batchVars, singleVars, slotVars, csrfHeader>>

\* ValidateCSRFToken(token): one critical section under the write lock
Validate(c) ==
    /\ StoreIdle(c)
    /\ \E token \in PresentedTokens :
          /\ csrfCalls' = [csrfCalls EXCEPT ![c] =
                 [IdleStoreCall EXCEPT !.pc = "returned", !.fn = "validate", !.token = token,
                                       !.ok = ValidateCSRFToken(token, csrfTokens)]]
          /\ csrfTokens' = StoreAfterValidate(token, csrfTokens)
    /\ UNCHANGED <<normVars, checkVars, batchVars, singleVars, slotVars, csrfHeader, csrfIssued>>

\* time.Now() passes the expiresAt of a stored token
TokenExpires ==
    /\ \E t \in DOMAIN csrfTokens :
          /\ csrfTokens[t] = "fresh"
          /\ csrfTokens' = [csrfTokens EXCEPT ![t] = "expired"]
    /\ UNCHANGED <<normVars, checkVars, batchVars, singleVars, slotVars, csrfHeader, csrfCalls,
                   csrfIssued>>

\* one tick of cleanupExpiredTokens
Cleanup ==
    /\ csrfTokens' = StoreAfterCleanup(csrfTokens)
    /\ UNCHANGED <<normVars, checkVars, batchVars, singleVars, slotVars, csrfHeader, csrfCalls,
                   csrfIssued>>

Counting == \E c \in StoreCallers : GenerateCount(c)

Storing == \E c \in StoreCallers : GenerateStore(c)

Validating == \E c \in StoreCallers : Validate(c)

NextStore ==
    \/ Counting
    \/ Storing
    \/ Validating
    \/ TokenExpires
    \/ Cleanup

SpecStore == InitStore /\ [][NextStore]_vars

-----------------------------------------------------------------------------
(* Concurrent calls of CheckDomainsHandler, followed for their goroutines *)
(* and semaphores only.  Every call makes its own sem, ctx and WaitGroup; *)
(* Check is one step (it returns), the two deferred calls of a goroutine  *)
(* are two steps, in their LIFO order: <-sem, then wg.Done().             *)
(* acquired and released count the sends and receives of each goroutine.  *)

\* the handler call b with n goroutines started: sem := make(chan struct{}, maxConcurrent)
StartedBatch(n) ==
    [hpc |-> "waiting", ctxDone |-> FALSE, sem |-> 0,
     upc |-> [i \in 1..n |-> "select"],
     acquired |-> [i \in 1..n |-> 0],
     released |-> [i \in 1..n |-> 0]]

BatchUnits(b) == DOMAIN batches[b].upc

\* faulty variant: one channel for all handler calls
SemOfShared(bs, b) == bs[1].sem + bs[Len(bs)].sem

\* the channel a goroutine of call b sends to: the sem of its own call
SemOf(bs, b) == bs[b].sem

\* select, case sem <- struct{}{}: then the normErrors test, which sends the
\* goroutine to its return or into Check
SlotAcquire(b, idx) ==
    /\ batches[b].upc[idx] = "select"
    /\ CanSend(SemOf(batches, b))
    /\ \E next \in {"checking", "exit"} :
          batches' = [batches EXCEPT ![b].sem = @ + 1,
                                     ![b].acquired[idx] = @ + 1,
                                     ![b].upc[idx] = next]
    /\ UNCHANGED <<normVars, checkVars, batchVars, csrfVars, singleVars>>

\* select, case <-ctx.Done(): the goroutine returns without a slot
SlotCancelled(b, idx) ==
    /\ batches[b].upc[idx] = "select"
    /\ batches[b].ctxDone
    /\ batches' = [batches EXCEPT ![b].upc[idx] = "signal"]
    /\ UNCHANGED <<normVars, checkVars, batchVars, csrfVars, singleVars>>

\* checker.Check returns
SlotCheck(b, idx) ==
    /\ batches[b].upc[idx] = "checking"
    /\ batches' = [batches EXCEPT ![b].upc[idx] = "exit"]
    /\ UNCHANGED <<normVars, checkVars, batchVars, csrfVars, singleVars>>

\* faulty variant: the goroutine returns without running its deferred receive
SlotReleaseSkipped(b, idx) ==
    /\ batches[b].upc[idx] = "exit"
    /\ batches' = [batches EXCEPT ![b].upc[idx] = "signal"]
    /\ UNCHANGED <<normVars, checkVars, batchVars, csrfVars, singleVars>>

\* defer func() { <-sem }()
SlotRelease(b, idx) ==
    /\ batches[b].upc[idx] = "exit"
    /\ batches[b].sem > 0
    /\ batches' = [batches EXCEPT ![b].sem = @ - 1,
                                     ![b].released[idx] = @ + 1,
                                     ![b].upc[idx] = "signal"]
    /\ UNCHANGED <<normVars, checkVars, batchVars, csrfVars, singleVars>>

\* defer wg.Done()
SlotDone(b, idx) ==
    /\ batches[b].upc[idx] = "signal"
    /\ batches' = [batches EXCEPT ![b].upc[idx] = "done"]
    /\ UNCHANGED <<normVars, checkVars, batchVars, csrfVars, singleVars>>

\* wg.Wait() returns and the handler answers
SlotJoin(b) ==
    /\ batches[b].hpc = "waiting"
    /\ \A idx \in BatchUnits(b) : batches[b].upc[idx] = "done"
    /\ batches' = [batches EXCEPT ![b].hpc = "responded"]
    /\ UNCHANGED <<normVars, checkVars, batchVars, csrfVars, singleVars>>

\* ctx is done: the client is gone or requestTimeout has passed
SlotCtxDone(b) ==
    /\ batches[b].hpc = "waiting"
    /\ ~batches[b].ctxDone
    /\ batches' = [batches EXCEPT ![b].ctxDone = TRUE]
    /\ UNCHANGED <<normVars, checkVars, batchVars, csrfVars, singleVars>>

Acquiring == \E b \in DOMAIN batches : \E idx \in BatchUnits(b) : SlotAcquire(b, idx)

Abandoning == \E b \in DOMAIN batches : \E idx \in BatchUnits(b) : SlotCancelled(b, idx)

Returning == \E b \in DOMAIN batches : \E idx \in BatchUnits(b) : SlotCheck(b, idx)

Releasing == \E b \in DOMAIN batches : \E idx \in BatchUnits(b) : SlotRelease(b, idx)

Signalling == \E b \in DOMAIN batches : \E idx \in BatchUnits(b) : SlotDone(b, idx)

Joining == \E b \in DOMAIN batches : SlotJoin(b)

CtxEnding == \E b \in DOMAIN batches : SlotCtxDone(b)

NextSlots ==
    \/ Acquiring
    \/ Abandoning
    \/ Returning
    \/ Releasing
    \/ Signalling
    \/ Joining
    \/ CtxEnding

\* the state all specifications of this section start from, but for batches
SlotsIdle ==
    /\ input = <<>>
    /\ npc = "unused"
    /\ nres = NoResult
    /\ nres2 = NoResult
    /\ probe = NoProbe
    /\ ctxErr = "none"
    /\ call = <<>>
    /\ req = <<>>
    /\ hpc = "unused"
    /\ httpStatus = 0
    /\ normalizedDomains = <<>>
    /\ normErrors = <<>>
    /\ results = <<>>
    /\ upc = <<>>
    /\ sem = 0
    /\ response = NoResponse
    /\ produced = <<>>
    /\ NoCSRF
    /\ NoSingle

\* two requests in flight at once: one with a goroutine more than its
\* semaphore has slots, one that fills its semaphore exactly
InitTwoBatches ==
    /\ SlotsIdle
    /\ batches \in {<<StartedBatch(n), StartedBatch(m)>> :
                       n \in {maxConcurrent + 1}, m \in {maxConcurrent}}

SpecTwoBatches == InitTwoBatches /\ [][NextSlots]_vars

\* one request of 1..maxDomainsPerRequest domains
InitOneBatch ==
    /\ SlotsIdle
    /\ batches \in {<<StartedBatch(n)>> : n \in 1..maxDomainsPerRequest}

\* any step of goroutine idx of call b
GoroutineStep(b, idx) ==
    /\ idx \in BatchUnits(b)
    /\ \/ SlotAcquire(b, idx)
       \/ SlotCancelled(b, idx)
       \/ SlotCheck(b, idx)
       \/ SlotRelease(b, idx)
       \/ SlotDone(b, idx)

\* the scheduler runs every goroutine that can take a step, Check returns,
\* and the handler goroutine leaves wg.Wait() once the counter is zero;
\* nothing is assumed about the context
FairScheduling ==
    /\ \A idx \in 1..maxDomainsPerRequest : WF_vars(GoroutineStep(1, idx))
    /\ WF_vars(SlotJoin(1))

SpecOneBatchFair == InitOneBatch /\ [][NextSlots]_vars /\ FairScheduling

-----------------------------------------------------------------------------
(* CheckSingleDomainHandler: GET /check/{domain}.  The handler runs       *)
(* Check in its own goroutine with r.Context(), which is cancelled when    *)
(* the client goes away; response holds the body it writes.               *)

checkPrefix == <<"/", "c", "h", "e", "c", "k", "/">>

\* strings.TrimPrefix(s, prefix)
TrimPrefix(s, prefix) ==
    IF HasPrefix(s, prefix) THEN SubSeq(s, Len(prefix) + 1, Len(s)) ELSE s

\* path := strings.TrimPrefix(r.URL.Path, "/check/")
PathDomain(r) == TrimPrefix(r.Path, checkPrefix)

\* path == "" || path == r.URL.Path
NoDomainSpecified(r) == PathDomain(r) = <<>> \/ PathDomain(r) = r.Path

ErrMethodNotAllowed == HTTPError("Method not allowed")

ErrNoDomainSpecified == HTTPError("No domain specified")

ErrInvalidDomainFormat == HTTPError("Invalid domain format")

Methods == {"GET", "POST"}

\* the paths the router and the handler tests pass to the handler
Paths == {checkPrefix \o x : x \in RawInputs} \cup {SubSeq(checkPrefix, 1, 6)}

InitSingle ==
    /\ input = <<>>
    /\ npc = "unused"
    /\ nres = NoResult
    /\ nres2 = NoResult
    /\ probe = NoProbe
    /\ ctxErr = "none"
    /\ call = [i \in {Caller} |-> IdleCall]
    /\ req = <<>>
    /\ hpc = "recv"
    /\ httpStatus = 0
    /\ normalizedDomains = <<>>
    /\ normErrors = <<>>
    /\ results = <<>>
    /\ upc = <<>>
    /\ sem = 0
    /\ response = NoResponse
    /\ produced = <<>>
    /\ NoCSRF
    /\ httpReq \in [Method : Methods, Path : Paths]
    /\ NoSlots

\* the handler up to its call of checker.Check
SingleDispatch ==
    /\ hpc = "recv"
    /\ IF httpReq.Method # "GET"
       THEN /\ httpStatus' = 405
            /\ response' = ErrMethodNotAllowed
            /\ hpc' = "rejected"
            /\ UNCHANGED call
       ELSE IF NoDomainSpecified(httpReq)
       THEN /\ httpStatus' = 400
            /\ response' = ErrNoDomainSpecified
            /\ hpc' = "rejected"
            /\ UNCHANGED call
       ELSE IF Normalize(PathDomain(httpReq)).err # ErrNone
       THEN /\ httpStatus' = 400
            /\ response' = ErrInvalidDomainFormat
            /\ hpc' = "rejected"
            /\ UNCHANGED call
       ELSE /\ call' = [call EXCEPT ![Caller] = EnterCheck(Normalize(PathDomain(httpReq)).d)]
            /\ hpc' = "waiting"
            /\ UNCHANGED <<httpStatus, response>>
    /\ UNCHANGED <<normVars, csrfVars, singleVars, slotVars, ctxErr, req, normalizedDomains, normErrors,
                   results, upc, sem, produced>>

\* Check has returned: 200 and the result as body, with or without error
SingleRespond ==
    /\ hpc = "waiting"
    /\ call[Caller].pc = "returned"
    /\ httpStatus' = 200
    /\ response' = call[Caller].result
    /\ hpc' = "responded"
    /\ UNCHANGED <<normVars, csrfVars, singleVars, slotVars, checkVars, req, normalizedDomains,
                   normErrors, results, upc, sem, produced>>

NextSingle ==
    \/ SingleDispatch
    \/ StepDNS
    \/ StepRDAP
    \/ StepWHOIS
    \/ CancelDuringCheck
    \/ SingleRespond

SpecSingle == InitSingle /\ [][NextSingle]_vars

-----------------------------------------------------------------------------
(* Claims about Normalize (checked under SpecNormalize) *)

Letters == {"a", "b", "c", "d", "e", "f", "g", "h", "i", "j", "k", "l", "m",
            "n", "o", "p", "q", "r", "s", "t", "u", "v", "w", "x", "y", "z",
            "A", "B", "C", "D", "E", "F", "G", "H", "I", "J", "K", "L", "M",
            "N", "O", "P", "Q", "R", "S", "T", "U", "V", "W", "X", "Y", "Z"}

Digits == {"0", "1", "2", "3", "4", "5", "6", "7", "8", "9"}

DomainChars == Letters \cup Digits \cup {"-", "."}

\* the DomainIdentifier invariant of the data model
WellFormedDomain(d) ==
    /\ d.Full = d.Name \o <<".">> \o d.TLD
    /\ d.Name # <<>>
    /\ d.TLD # <<>>
    /\ d.Full[1] # "."
    /\ d.Full[Len(d.Full)] # "."
    /\ \A i \in 1..(Len(d.Full) - 1) : ~(d.Full[i] = "." /\ d.Full[i + 1] = ".")
    /\ \A i \in 1..Len(d.Full) : d.Full[i] \in DomainChars
    /\ d.Full[1] # "-"

\* the text after the last dot of a string that contains one
LastDotSegment(s) ==
    LET k == CHOOSE i \in 1..Len(s) : s[i] = "." /\ \A j \in (i + 1)..Len(s) : s[j] # "."
    IN  SubSeq(s, k + 1, Len(s))

Cleaned(raw) == ToLower(TrimSpace(raw))

\* C1: every input that begins with '-' after trimming and lowercasing is
\* rejected with ErrInvalidFormat and yields no domain identifier.
C1_LeadingHyphenRejected ==
    (npc # "start" /\ HasPrefix(Cleaned(input), <<"-">>))
        => (nres.err = ErrInvalidFormat /\ nres.d = ZeroDomain)

\* C2: every Domain returned without error satisfies the DomainIdentifier
\* invariant (Full = Name.TLD, both non-empty, no leading, trailing or
\* consecutive dots, restricted character set, no leading hyphen).
C2_DomainInvariant ==
    (npc # "start" /\ nres.err = ErrNone) => WellFormedDomain(nres.d)

\* C3: for an input that contains a dot and normalizes successfully, ".com" is
\* never appended: Full is the trimmed, lowercased input and TLD is its last
\* dot-segment.
C3_TLDPreserved ==
    (npc # "start" /\ ContainsDot(input) /\ nres.err = ErrNone)
        => /\ nres.d.Full = Cleaned(input)
           /\ nres.d.TLD = LastDotSegment(Cleaned(input))

C3_Witness ==
    /\ npc = "normalized"
    /\ ContainsDot(input)
    /\ nres.err = ErrNone
    /\ nres.d.TLD # <<"c", "o", "m">>
    /\ input # nres.d.Full

C5_Idempotent ==
    npc = "renormalized" => (nres2.err = ErrNone /\ nres2.d = nres.d)

C5_Witness ==
    /\ npc = "renormalized"
    /\ nres2.err = ErrNone
    /\ nres.d.Full # input
    /\ ContainsDot(input)

-----------------------------------------------------------------------------
(* Claims about Check (checked under SpecCheck) *)

Invoked(f, prober) == \E k \in 1..Len(f.invoked) : f.invoked[k] = prober

TimesInvoked(f, prober) == Cardinality({k \in 1..Len(f.invoked) : f.invoked[k] = prober})

\* C6: if the DNS pre-filter reports a definitive record (shouldSkip), the
\* verdict is Taken, not available, with Source "dns", and neither RDAPCheck
\* nor WHOISCheck is invoked.
C6_DNSShortCircuit ==
    \A i \in DOMAIN call :
        (call[i].pc \notin {"idle", "dns"} /\ call[i].dns.shouldSkip)
            => /\ call[i].pc = "returned"
               /\ call[i].result.Status = StatusTaken
               /\ call[i].result.Available = FALSE
               /\ call[i].result.Source = "dns"
               /\ ~Invoked(call[i], "rdap")
               /\ ~Invoked(call[i], "whois")

C6_Witness ==
    \E i \in DOMAIN call :
        /\ call[i].pc = "returned"
        /\ call[i].dns.shouldSkip
        /\ call[i].result.Source = "dns"

\* C7: whenever RDAPCheck returns its unsupported-TLD error, the cascade goes
\* on to WHOISCheck and the verdict has Source "whois", whatever WHOIS answers.
C7_UnsupportedFallsThrough ==
    \A i \in DOMAIN call :
        call[i].rdap.err = ErrRDAPUnsupported(call[i].d.TLD)
            => /\ call[i].pc \in {"whois", "returned"}
               /\ call[i].pc = "returned"
                    => /\ call[i].invoked = <<"dns", "rdap", "whois">>
                       /\ call[i].result.Source = "whois"

C7_Witness ==
    \E i \in DOMAIN call :
        /\ call[i].pc = "returned"
        /\ call[i].rdap.err = ErrRDAPUnsupported(call[i].d.TLD)
        /\ call[i].whois.err = NilError
        /\ call[i].whois.available
        /\ call[i].result.Status = StatusAvailable

\* C8: Check always returns a verdict whose Status is Available, Taken or
\* Error, never Unknown; when WHOIS fails too, the verdict is Status Error,
\* Source "whois", with a message carrying the WHOIS error, and every call
\* that has not returned can take its next step.
C8_AlwaysAVerdict ==
    \A i \in DOMAIN call :
        /\ call[i].pc = "returned"
              => /\ call[i].result.Status \in {StatusAvailable, StatusTaken, StatusError}
                 /\ call[i].result.Domain = call[i].d
                 /\ (Invoked(call[i], "whois") /\ call[i].whois.err # NilError)
                       => /\ call[i].result.Status = StatusError
                          /\ call[i].result.Source = "whois"
                          /\ call[i].result.Available = FALSE
                          /\ call[i].result.Error =
                                 <<"all checks failed, last error: ">> \o call[i].whois.err
                          /\ call[i].err # NilError
        /\ call[i].pc \in {"dns", "rdap", "whois"}
              => ENABLED (CheckDNS(i) \/ CheckRDAP(i) \/ CheckWHOIS(i))

C8_Witness ==
    \E i \in DOMAIN call :
        /\ call[i].pc = "returned"
        /\ call[i].whois.err = <<"whois returned no output">>
        /\ call[i].rdap.err = <<"RDAP request failed: ">>
        /\ call[i].result.Status = StatusError

-----------------------------------------------------------------------------
(* Claims about CheckDomainsHandler (checked under Spec) *)

\* goroutine idx has assigned its verdict
HasWritten(idx) == upc[idx] \in {"exit", "done"}

\* C9: a batch of 0 < n <= maxDomainsPerRequest inputs is answered with
\* exactly n verdicts, Checked = n and Checked = Available + Taken + Errors,
\* for all per-domain outcomes and all interleavings.
C9_CountsAddUp ==
    /\ (hpc # "recv" /\ 0 < Len(req) /\ Len(req) <= maxDomainsPerRequest) => hpc # "rejected"
    /\ hpc = "responded"
          => /\ 0 < Len(req) /\ Len(req) <= maxDomainsPerRequest
             /\ httpStatus = 200
             /\ Len(response.Results) = Len(req)
             /\ response.Checked = Len(req)
             /\ response.Checked = response.Available + response.Taken + response.Errors

C9_Witness ==
    /\ hpc = "responded"
    /\ Len(req) = maxDomainsPerRequest
    /\ response.Available >= 1
    /\ response.Taken >= 1
    /\ response.Errors >= 1

\* C10: result order matches input order whatever the completion order: at
\* every moment the slot of a goroutine that has written holds the verdict
\* that goroutine built for its own input, the slot of one that has not
\* written is untouched, and the response carries the slots in that order.
C10_OrderPreserved ==
    hpc \in {"waiting", "responded"} =>
        /\ \A idx \in Units :
              IF HasWritten(idx)
              THEN /\ results[idx] = produced[idx]
                   /\ results[idx].Domain \in {normalizedDomains[idx], Domain(req[idx], <<>>, <<>>)}
              ELSE results[idx] = ZeroResult
        /\ hpc = "responded" => response.Results = produced

\* a later input's goroutine has finished with a verdict from Check while an
\* earlier input's goroutine has not written yet
C10_Witness ==
    /\ hpc = "waiting"
    /\ Len(req) = maxDomainsPerRequest
    /\ \E i, j \in Units :
          /\ i < j
          /\ ~HasWritten(i)
          /\ upc[j] = "done"
          /\ results[j].Status = StatusAvailable
          /\ results[j].Domain.Full # <<>>

\* C11: a batch with no input and a batch with more than
\* maxDomainsPerRequest inputs are each refused with HTTP 400 and their own
\* message before anything is normalized, any goroutine is started or any
\* prober runs; a batch of exactly maxDomainsPerRequest valid inputs is
\* accepted and, once answered, is answered 200 with one result per input.
C11_RequestShape ==
    hpc # "recv" =>
        /\ Len(req) = 0
              => (hpc = "rejected" /\ httpStatus = 400 /\ response = ErrNoDomains)
        /\ Len(req) > maxDomainsPerRequest
              => (hpc = "rejected" /\ httpStatus = 400 /\ response = ErrMaximumDomains)
        /\ hpc = "rejected"
              => /\ normalizedDomains = <<>> /\ normErrors = <<>>
                 /\ results = <<>> /\ upc = <<>> /\ sem = 0
                 /\ call = <<>> /\ produced = <<>>
        /\ Len(req) = maxDomainsPerRequest
              => /\ hpc \in {"waiting", "responded"}
                 /\ Len(results) = maxDomainsPerRequest
                 /\ hpc = "responded"
                       => (httpStatus = 200 /\ response.Checked = maxDomainsPerRequest)

\* a batch of exactly maxDomainsPerRequest inputs, all of which normalize,
\* has been answered
C11_Witness ==
    /\ hpc = "responded"
    /\ Len(req) = maxDomainsPerRequest
    /\ \A i \in 1..Len(req) : normErrors[i] = ErrNone
    /\ Len(response.Results) = maxDomainsPerRequest

\* the context is done and no goroutine has taken a slot so far: each is
\* still at the select or has ended there with the cancellation verdict
CancelledBeforeAnyAcquire ==
    /\ ctxErr # "none"
    /\ hpc \in {"waiting", "responded"}
    /\ sem = 0
    /\ \A idx \in Units :
          /\ call[idx] = IdleCall
          /\ \/ upc[idx] = "select"
             \/ upc[idx] = "done" /\ results[idx] = CancelledResult(idx)

\* C12: if the context is cancelled before any goroutine acquires a slot,
\* every verdict is Status Error with message "request cancelled" and Check
\* is called for no input: from such a state no step takes a slot, enters
\* Check or writes another verdict.
C12_CancelledBeforeAcquire ==
    [][CancelledBeforeAnyAcquire => CancelledBeforeAnyAcquire']_vars

\* C13: once the deadline has fired, a goroutine that is still at the select
\* never takes a slot or enters Check: its only step writes the verdict
\* Error "request cancelled" and ends it.
C13_WaitersAbandon ==
    [][\A idx \in Units :
          (ctxErr = "deadline" /\ upc[idx] = "select")
              => \/ upc'[idx] = "select" /\ call'[idx] = call[idx]
                 \/ /\ upc'[idx] = "done"
                    /\ results'[idx].Status = StatusError
                    /\ results'[idx].Error = <<"request cancelled">>]_vars

\* the goroutines that hold a slot: past the send, before the deferred receive
Holders == {idx \in Units : upc[idx] \in {"checking", "exit"}}

\* the goroutines inside checker.Check
InCheck == {idx \in Units : call[idx].pc \in {"dns", "rdap", "whois"}}

\* C14: at every moment at most maxConcurrent goroutines are inside Check;
\* a goroutine is inside Check only while it holds a slot, and the number of
\* held slots is the number of elements in the semaphore and never exceeds
\* its capacity.
C14_BoundedConcurrency ==
    /\ InCheck \subseteq Holders
    /\ Cardinality(Holders) = sem
    /\ sem <= maxConcurrent
    /\ Cardinality(InCheck) <= maxConcurrent

\* the semaphore is full of goroutines inside Check while another waits
C14_Witness ==
    /\ sem = maxConcurrent
    /\ Cardinality(InCheck) = maxConcurrent
    /\ \E idx \in Units : upc[idx] = "select"
    /\ ctxErr = "none"

\* C15: no partial result is discarded: in the answer of a batch every
\* position holds the verdict its own goroutine built, with Status Available,
\* Taken or Error and never the zero value, also when the context was
\* cancelled at any point.
C15_EveryPositionFilled ==
    hpc = "responded" =>
        /\ Len(response.Results) = Len(req)
        /\ \A i \in 1..Len(req) :
              /\ response.Results[i] # ZeroResult
              /\ response.Results[i].Status \in {StatusAvailable, StatusTaken, StatusError}
              /\ response.Results[i] = produced[i]

\* an answer of a cancelled request that carries a cancellation verdict next
\* to a verdict completed before the cancellation
C15_Witness ==
    /\ hpc = "responded"
    /\ ctxErr # "none"
    /\ \E i, j \in 1..Len(req) :
          /\ response.Results[i].Error = <<"request cancelled">>
          /\ response.Results[j].Status = StatusAvailable

\* C16: a slot of results is written exactly once, by the goroutine that
\* owns it (a slot changes only from the zero value, in the step in which
\* its own goroutine passes from running to finished, and holds a verdict
\* when the handler reads it), and results is read only after wg.Wait()
\* has returned, that is when every goroutine is done; it does not change
\* afterwards.
C16_WriteOnceReadAfterJoin ==
    [][/\ \A idx \in Units :
             results'[idx] # results[idx]
                 => /\ results[idx] = ZeroResult
                    /\ upc[idx] \in {"select", "checking"}
                    /\ upc'[idx] \in {"exit", "done"}
                    /\ results'[idx] = produced'[idx]
                    /\ \A other \in Units \ {idx} : upc'[other] = upc[other]
       /\ (hpc = "waiting" /\ response' # response)
             => /\ \A idx \in Units : upc[idx] = "done" /\ results[idx] # ZeroResult
                /\ response'.Results = results
       /\ hpc = "responded" => results' = results]_vars

\* one goroutine has written and ended while another is inside Check and a
\* third still waits; nothing has been read
C16_Witness ==
    /\ hpc = "waiting"
    /\ response = NoResponse
    /\ \E i, j, k \in Units :
          /\ upc[i] = "done" /\ results[i].Source = "rdap"
          /\ upc[j] = "checking" /\ call[j].pc = "whois" /\ results[j] = ZeroResult
          /\ upc[k] = "select" /\ results[k] = ZeroResult

\* an input whose normalization failed, whose cascade was exhausted or whose
\* goroutine was cancelled
FailedAt(i) == results[i].Status = StatusError

\* C17: a per-domain error never aborts the batch: the step that writes a
\* verdict at position i changes no other position, no other goroutine and
\* not the state of the handler; an input that fails to normalize gets an
\* Error verdict at its own position; while goroutines are unfinished one of
\* them can step; and the answer is 200 with all positions, Checked = n and
\* Errors equal to the number of Error verdicts.
C17_ErrorsStayLocal ==
    /\ [](hpc \in {"waiting", "responded"} =>
            /\ \A i \in Units :
                  (HasWritten(i) /\ normErrors[i] # ErrNone) => FailedAt(i)
            /\ (hpc = "waiting" /\ ~WaitReturns)
                  => \E i \in Units :
                        \/ upc[i] = "checking"
                        \/ upc[i] = "exit"
                        \/ upc[i] = "select" /\ (CanSend(sem) \/ ctxErr # "none")
            /\ hpc = "responded"
                  => /\ httpStatus = 200
                     /\ response.Results = results
                     /\ response.Checked = Len(req)
                     /\ response.Errors = Cardinality({i \in Units : FailedAt(i)})
                     /\ response.Available + response.Taken
                            = Cardinality({i \in Units : ~FailedAt(i)}))
    /\ [][\A i \in Units :
             results'[i] # results[i]
                 => /\ hpc' = hpc /\ httpStatus' = httpStatus
                    /\ \A j \in Units \ {i} :
                          /\ results'[j] = results[j]
                          /\ upc'[j] = upc[j]
                          /\ call'[j] = call[j]]_vars

\* an answer that carries a normalization failure, an exhausted cascade and
\* an Available verdict side by side
C17_Witness ==
    /\ hpc = "responded"
    /\ \E i, j, k \in Units :
          /\ response.Results[i].Error = <<"invalid domain format">>
          /\ response.Results[j].Status = StatusError
          /\ response.Results[j].Source = "whois"
          /\ response.Results[k].Status = StatusAvailable

\* C18: the batch ["trucore", "example.org", "-bad.com"], without
\* cancellation: no prober is ever invoked for "-bad.com", and when
\* trucore.com resolves available and example.org resolves taken the answer
\* is checked 3, available 1, taken 1, errors 1 with the verdicts
\* [trucore.com Available, example.org Taken, "-bad.com" Error "invalid
\* domain format"] in this order.
C18_ExampleBatch ==
    (req = <<trucore, exampleOrg, badCom>> /\ ctxErr = "none" /\ hpc \in {"waiting", "responded"})
        => /\ call[3] = IdleCall
           /\ HasWritten(3) => (results[3].Source = "" /\ results[3] = InvalidResult(3))
           /\ (hpc = "responded" /\ results[1].Status = StatusAvailable
                                 /\ results[2].Status = StatusTaken)
                 => /\ response.Checked = 3
                    /\ response.Available = 1
                    /\ response.Taken = 1
                    /\ response.Errors = 1
                    /\ response.Results[1].Domain.Full = trucore \o DotCom
                    /\ response.Results[2].Domain.Full = exampleOrg
                    /\ response.Results[3].Status = StatusError
                    /\ response.Results[3].Error = <<"invalid domain format">>

\* the Result invariant of the data model
Consistent(res) ==
    /\ res.Available = (res.Status = StatusAvailable)
    /\ (res.Error # <<>>) = (res.Status = StatusError)

\* C19: every verdict produced by Check or by the batch handler itself has
\* Available = (Status = StatusAvailable) and a non-empty Error exactly when
\* Status = StatusError: this holds of every slot a goroutine has written
\* and of every verdict in the answer.
C19_VerdictConsistent ==
    /\ \A idx \in Units :
          HasWritten(idx) => (Consistent(results[idx]) /\ results[idx].Status # StatusUnknown)
    /\ hpc = "responded" => \A i \in 1..Len(response.Results) : Consistent(response.Results[i])

\* verdicts of Check (taken by DNS, available by WHOIS) and of the handler
\* (cancellation) in one answer
C19_Witness ==
    /\ hpc = "responded"
    /\ \E i, j, k \in Units :
          /\ response.Results[i].Status = StatusTaken /\ response.Results[i].Source = "dns"
          /\ response.Results[j].Status = StatusAvailable /\ response.Results[j].Source = "whois"
          /\ response.Results[k].Error = <<"request cancelled">>

-----------------------------------------------------------------------------
(* Claims about the probers (checked under SpecProbers) *)

\* RDAPCheck has received an HTTP 200 response for the probed domain
Got200 ==
    /\ probe.pc = "done"
    /\ probe.fn = "rdap"
    /\ probe.d.TLD \in rdapServers
    /\ ~probe.env.badURL
    /\ ~probe.env.transport
    /\ probe.env.code = 200

\* the decoded status list has no "active" and no "registered" entry
NoRegisteredStatus(status) ==
    \A i \in 1..Len(status) : status[i] # "active" /\ status[i] # "registered"

-----------------------------------------------------------------------------
(* Further claims about Check (checked under SpecCheck) *)

\* C21: RDAPCheck answers available without error for HTTP 404; it returns
\* an error for a TLD without a server (sending no request), for an HTTP
\* status other than 200 and 404, for a 200 body that does not decode, for a
\* transport failure and for a context that is done; and in Check each such
\* error takes the call to the WHOIS stage, so that the verdict, once
\* returned, comes from WHOIS and never from the failed RDAP stage.
C21_RDAPErrorsFallThrough ==
    \A i \in DOMAIN call :
        (probe.pc = "done" /\ probe.fn = "rdap") =>
            LET e == probe.env
                o == probe.out
                f == call[i]
                mapped == probe.d.TLD \in rdapServers
            IN  /\ f.rdap = o
                /\ ~mapped => (o = RDAPAnswer(FALSE, ErrRDAPUnsupported(probe.d.TLD))
                                 /\ probe.sent = 0)
                /\ (mapped /\ ~e.badURL /\ ~e.transport /\ e.code = 404)
                      => o = RDAPAnswer(TRUE, NilError)
                /\ (mapped /\ ~e.badURL /\ ~e.transport /\ e.code \notin {200, 404})
                      => (o.err # NilError /\ ~o.available)
                /\ (mapped /\ ~e.badURL /\ ~e.transport /\ e.code = 200 /\ ~e.jsonOK)
                      => (o.err # NilError /\ ~o.available)
                /\ (mapped /\ ~e.badURL /\ e.transport) => (o.err # NilError /\ ~o.available)
                /\ probe.ctx # "none" => (o.err # NilError /\ ~o.available)
                /\ o.err # NilError
                      => /\ f.pc \in {"whois", "returned"}
                         /\ f.pc = "returned"
                               => /\ f.invoked = <<"dns", "rdap", "whois">>
                                  /\ f.whois.err # NotCalled
                                  /\ f.result.Source = "whois"
                                  /\ f.result.Status = StatusError
                                        => f.result.Error =
                                               <<"all checks failed, last error: ">> \o f.whois.err
                                  /\ f.result.Status # StatusError
                                        => f.result.Available = f.whois.available

\* an unexpected HTTP status from RDAP, then WHOIS answers available
C21_Witness ==
    \E i \in DOMAIN call :
        /\ probe.pc = "done" /\ probe.fn = "rdap"
        /\ probe.d.TLD \in rdapServers
        /\ ~probe.env.badURL /\ ~probe.env.transport /\ probe.env.code = 500
        /\ call[i].pc = "returned"
        /\ call[i].result.Status = StatusAvailable
        /\ call[i].result.Source = "whois"

-----------------------------------------------------------------------------
(* Further claims about the probers (checked under SpecProbers) *)

\* WHOISCheck has returned
WHOISDone == probe.pc = "done" /\ probe.fn = "whois"

\* the output contains no indicator of either set
Unclassified(env) == ~env.hasAvailable /\ ~env.hasTaken

\* C22: WHOISCheck classifies the output by the available indicators first
\* and the taken indicators second: output with an available indicator gives
\* (true, nil) even when it has taken indicators too and whatever the
\* command's error; output with a taken indicator and no available one gives
\* (false, nil).
C22_IndicatorOrder ==
    WHOISDone =>
        /\ probe.env.hasAvailable => probe.out = WHOISAnswer(TRUE, NilError)
        /\ (~probe.env.hasAvailable /\ probe.env.hasTaken)
              => probe.out = WHOISAnswer(FALSE, NilError)

\* output with indicators of both sets, from a command that exited non-zero
C22_Witness ==
    /\ WHOISDone
    /\ probe.env.hasAvailable
    /\ probe.env.hasTaken
    /\ probe.env.cmdErr = "exit"
    /\ probe.out.available

\* C23 as stated: when the whois process exits non-zero, no output gives an
\* error and output matching neither set gives (false, nil), for every
\* non-zero exit code.
C23_NonZeroExit ==
    (WHOISDone /\ probe.env.cmdErr = "exit" /\ probe.env.exitCode > 0
               /\ probe.env.ctxSeen = "none") =>
        /\ ~probe.env.nonEmpty => probe.out.err # NilError
        /\ (probe.env.nonEmpty /\ Unclassified(probe.env))
              => probe.out = WHOISAnswer(FALSE, NilError)

\* C23 as amended: when the whois process exits non-zero, no output gives an
\* error; output matching neither set gives (false, nil) when the exit code
\* is 1 and the deadline has not been exceeded, and an error otherwise (the
\* timeout error after the deadline, the command error for other codes).
C23_ExitCodeOne ==
    (WHOISDone /\ probe.env.cmdErr = "exit") =>
        /\ ~probe.env.nonEmpty => (probe.out.err # NilError /\ ~probe.out.available)
        /\ (probe.env.nonEmpty /\ Unclassified(probe.env))
              => IF probe.env.ctxSeen = "deadline"
                 THEN probe.out = WHOISAnswer(FALSE, ErrWHOISTimeout)
                 ELSE IF probe.env.exitCode = 1
                 THEN probe.out = WHOISAnswer(FALSE, NilError)
                 ELSE probe.out = WHOISAnswer(FALSE, <<"whois command failed: ">>)

\* exit code 1 with output that has no indicator, answered taken
C23_Witness ==
    /\ WHOISDone
    /\ probe.env.cmdErr = "exit"
    /\ probe.env.exitCode = 1
    /\ probe.env.nonEmpty
    /\ Unclassified(probe.env)
    /\ probe.env.ctxSeen = "none"
    /\ probe.out = WHOISAnswer(FALSE, NilError)

\* C24 as stated: if the deadline of the context (the 10-second bound or the
\* caller's) is exceeded during WHOISCheck, it returns the timeout error and
\* no available/taken answer, whatever output the command produced.
C24_TimeoutAlwaysError ==
    (WHOISDone /\ probe.env.ctxSeen = "deadline" /\ probe.env.cmdErr # "nil")
        => probe.out = WHOISAnswer(FALSE, ErrWHOISTimeout)

\* C24 as amended: if the command fails with the deadline exceeded and its
\* output carries no available or taken indicator, WHOISCheck returns the
\* timeout error and no available/taken answer; output that carries an
\* indicator is answered by the indicator, and the timeout error is
\* returned in no other case.
C24_TimeoutUnlessIndicated ==
    WHOISDone =>
        /\ (probe.env.ctxSeen = "deadline" /\ probe.env.cmdErr # "nil" /\ Unclassified(probe.env))
              => probe.out = WHOISAnswer(FALSE, ErrWHOISTimeout)
        /\ (probe.env.ctxSeen = "deadline" /\ ~Unclassified(probe.env))
              => probe.out = WHOISAnswer(probe.env.hasAvailable, NilError)
        /\ probe.out.err = ErrWHOISTimeout
              => (probe.env.ctxSeen = "deadline" /\ probe.env.cmdErr # "nil"
                     /\ Unclassified(probe.env))

\* the command was killed at the deadline after printing text without
\* indicators
C24_Witness ==
    /\ WHOISDone
    /\ probe.env.ctxSeen = "deadline"
    /\ probe.env.cmdErr = "exit"
    /\ probe.env.exitCode = -1
    /\ probe.env.nonEmpty
    /\ Unclassified(probe.env)
    /\ probe.out = WHOISAnswer(FALSE, ErrWHOISTimeout)

\* C25: DNSFilter returns (false, true) or (true, false), always with a nil
\* error; shouldSkip holds exactly when one of the IP, MX, NS lookups
\* succeeded with at least one record; failed, timed-out and cancelled
\* lookups count as no record, so the absence of records is never
\* definitive.
C25_DNSFilterAnswers ==
    (probe.pc = "done" /\ probe.fn = "dns") =>
        /\ probe.out.err = NilError
        /\ probe.out.likelyAvailable = ~probe.out.shouldSkip
        /\ probe.out.shouldSkip
              = (probe.env.ip = "records" \/ probe.env.mx = "records" \/ probe.env.ns = "records")
        /\ (\A l \in {probe.env.ip, probe.env.mx, probe.env.ns} : l \in {"empty", "error"})
              => probe.out = [likelyAvailable |-> TRUE, shouldSkip |-> FALSE, err |-> NilError]

\* only the mail lookup finds records, the other two fail
C25_Witness ==
    /\ probe.pc = "done"
    /\ probe.fn = "dns"
    /\ probe.env = [ip |-> "error", mx |-> "records", ns |-> "error"]
    /\ probe.out.shouldSkip

-----------------------------------------------------------------------------
(* Claims about the token check of POST /check (checked under SpecCSRF) *)

\* C26: POST /check with a non-empty X-CSRF-Token that is not a valid stored
\* token is answered 403 before any domain is checked; without the header,
\* with an empty one or with a valid unexpired token the request is handled
\* as usual and a well-formed batch is answered 200.
C26_InvalidTokenForbidden ==
    (hpc # "recv" /\ Len(req) = 1) =>
        IF csrfHeader # "" /\ ~ValidateCSRFToken(csrfHeader, csrfTokens)
        THEN /\ hpc = "rejected"
             /\ httpStatus = 403
             /\ upc = <<>>
             /\ call = <<>>
        ELSE /\ hpc \in {"waiting", "responded"}
             /\ hpc = "responded" => httpStatus = 200

-----------------------------------------------------------------------------
(* Claims about CheckSingleDomainHandler (checked under SpecSingle) *)

\* the inputs the claim names as failing normalization
NamedInvalid == {invalidDots, trailingDot}

\* the request has no usable domain, as the claim counts it
BadSingleRequest(r) ==
    \/ NoDomainSpecified(r)
    \/ Normalize(PathDomain(r)).err # ErrNone
    \/ PathDomain(r) \in NamedInvalid

\* C27: GET /check/{domain} answers 400 exactly when the path has no domain
\* or the domain fails normalization ("invalid..domain" and "example."
\* included), and then Check is never invoked; in every other case, a failed
\* cascade included, it answers 200 with the verdict as body.
C27_BadRequestIffInvalid ==
    (httpReq.Method = "GET" /\ hpc # "recv") =>
        IF BadSingleRequest(httpReq)
        THEN /\ hpc = "rejected"
             /\ httpStatus = 400
             /\ call[Caller] = IdleCall
        ELSE /\ hpc \in {"waiting", "responded"}
             /\ hpc = "responded" => /\ httpStatus = 200
                                     /\ response = call[Caller].result

-----------------------------------------------------------------------------
(* Claims about NormalizeBatch (checked under SpecNormalizeBatch) *)

\* C28: NormalizeBatch returns two sequences of the length of its input;
\* position i holds exactly Normalize(inputs[i]), whatever happens at the
\* other positions, and a position with an error holds the zero Domain.
C28_PositionWise ==
    npc = "normalized" =>
        /\ Len(normalizedDomains) = Len(req)
        /\ Len(normErrors) = Len(req)
        /\ \A i \in 1..Len(req) :
              /\ normalizedDomains[i] = Normalize(req[i]).d
              /\ normErrors[i] = Normalize(req[i]).err
              /\ normErrors[i] # ErrNone => normalizedDomains[i] = ZeroDomain

\* a failure at the first position, successes after it
C28_Witness ==
    /\ npc = "normalized"
    /\ Len(req) = 3
    /\ normErrors[1] # ErrNone
    /\ normalizedDomains[1] = ZeroDomain
    /\ normErrors[2] = ErrNone
    /\ normalizedDomains[2].Full = exampleOrg
    /\ normErrors[3] # ErrNone

-----------------------------------------------------------------------------
(* Claims about the verdicts of a batch (checked under Spec) *)

Sources == {"dns", "rdap", "whois"}

AllNormalized == \A i \in 1..Len(normErrors) : normErrors[i] = ErrNone

\* C29: in a batch whose inputs all normalize and whose context is not
\* cancelled, every verdict written, and every verdict of the answer, has a
\* non-empty domain and a Source among dns, rdap and whois; a verdict with
\* Status Error names "whois", the stage that failed last.
C29_SourceAlwaysSet ==
    (hpc \in {"waiting", "responded"} /\ AllNormalized /\ ctxErr = "none") =>
        /\ \A idx \in Units :
              HasWritten(idx) =>
                  /\ results[idx].Domain.Full # <<>>
                  /\ results[idx].Source \in Sources
                  /\ results[idx].Status = StatusError => results[idx].Source = "whois"
        /\ hpc = "responded" =>
              /\ Len(response.Results) = Len(req)
              /\ \A i \in 1..Len(req) :
                    /\ response.Results[i].Domain.Full # <<>>
                    /\ response.Results[i].Source \in Sources

\* an answered batch of two with a failed cascade and a definitive DNS answer
C29_Witness ==
    /\ hpc = "responded"
    /\ ctxErr = "none"
    /\ AllNormalized
    /\ Len(req) = 2
    /\ response.Results[1].Status = StatusError
    /\ response.Results[1].Source = "whois"
    /\ response.Results[2].Source = "dns"

-----------------------------------------------------------------------------
(* Claims about the order of the cascade (checked under SpecCheck) *)

\* C30: Check invokes its probers in the order DNS, RDAP, WHOIS, each at
\* most once and none again; RDAPCheck only after DNSFilter answered without
\* a definitive record, WHOISCheck only after RDAPCheck returned an error;
\* and an RDAP answer without error ends the call with Source "rdap" and
\* Status Available or Taken as RDAP said.
C30_StrictOrderNoRetry ==
    \A i \in DOMAIN call :
        LET f == call[i]
        IN  /\ f.invoked \in {<<>>, <<"dns">>, <<"dns", "rdap">>, <<"dns", "rdap", "whois">>}
            /\ \A p \in Sources : TimesInvoked(f, p) <= 1
            /\ Invoked(f, "rdap")
                  => /\ f.dns.err # NotCalled
                     /\ ~(f.dns.err = NilError /\ f.dns.shouldSkip)
            /\ Invoked(f, "whois") => f.rdap.err \notin {NilError, NotCalled}
            /\ (Invoked(f, "rdap") /\ f.rdap.err = NilError)
                  => /\ f.pc = "returned"
                     /\ f.invoked = <<"dns", "rdap">>
                     /\ f.whois.err = NotCalled
                     /\ f.err = NilError
                     /\ f.result.Source = "rdap"
                     /\ f.result.Available = f.rdap.available
                     /\ f.result.Status =
                            IF f.rdap.available THEN StatusAvailable ELSE StatusTaken

\* DNS finds nothing, RDAP answers 404: the call ends there, available
C30_Witness ==
    \E i \in DOMAIN call :
        /\ call[i].pc = "returned"
        /\ call[i].invoked = <<"dns", "rdap">>
        /\ ~call[i].dns.shouldSkip
        /\ call[i].rdap = RDAPAnswer(TRUE, NilError)
        /\ call[i].result.Source = "rdap"
        /\ call[i].result.Status = StatusAvailable

-----------------------------------------------------------------------------
(* Claims about the CSRF token store (checked under SpecStore) *)

StoreSize == Cardinality(DOMAIN csrfTokens)

\* C31: the store never holds more than maxCSRFTokens tokens, whatever the
\* interleaving of concurrent generateCSRFToken calls; a call that finds the
\* store at the limit returns the token-limit error and stores nothing.
C31_StoreWithinLimit ==
    /\ StoreSize <= maxCSRFTokens
    /\ \A c \in DOMAIN csrfCalls :
          (csrfCalls[c].fn = "generate" /\ csrfCalls[c].tokenCount >= maxCSRFTokens)
              => /\ csrfCalls[c].pc = "returned"
                 /\ csrfCalls[c].err = ErrTokenLimit
                 /\ csrfCalls[c].token = ""

\* the tokens generateCSRFToken has stored at some time
IssuedTokens == {TokenNames[k] : k \in 1..csrfIssued}

\* what a call of ValidateCSRFToken by c must have done in this step
ValidatedExactly(c) ==
    LET t     == csrfCalls'[c].token
        valid == t # "" /\ t \in DOMAIN csrfTokens /\ csrfTokens[t] = "fresh"
    IN  /\ csrfCalls'[c].ok <=> valid
        /\ csrfCalls'[c].ok => (csrfTokens' = csrfTokens /\ csrfTokens'[t] = "fresh")
        /\ (t \in DOMAIN csrfTokens /\ csrfTokens[t] = "expired")
              => /\ t \notin DOMAIN csrfTokens'
                 /\ DOMAIN csrfTokens' = DOMAIN csrfTokens \ {t}
                 /\ \A u \in DOMAIN csrfTokens' : csrfTokens'[u] = csrfTokens[u]

\* an expired or deleted token never becomes acceptable again
NeverRevived ==
    \A t \in IssuedTokens :
        /\ t \notin DOMAIN csrfTokens => t \notin DOMAIN csrfTokens'
        /\ (t \in DOMAIN csrfTokens /\ csrfTokens[t] = "expired")
              => (t \notin DOMAIN csrfTokens' \/ csrfTokens'[t] = "expired")

\* C32: ValidateCSRFToken returns true exactly for a non-empty token that is
\* stored and not expired; a successful validation leaves the store as it
\* was, the validation of an expired token deletes it in the same step, and
\* no later step makes a deleted or expired token acceptable again.
C32_ValidateExact ==
    [][/\ \A c \in DOMAIN csrfCalls : Validate(c) => ValidatedExactly(c)
       /\ NeverRevived]_vars

\* one goroutine had a token of the server rejected that is no longer
\* stored, the other has a stored token accepted
C32_Witness ==
    \E c, e \in DOMAIN csrfCalls :
        /\ csrfCalls[c].pc = "returned" /\ csrfCalls[c].fn = "validate"
        /\ ~csrfCalls[c].ok
        /\ csrfCalls[c].token \in IssuedTokens
        /\ csrfCalls[c].token \notin DOMAIN csrfTokens
        /\ csrfCalls[e].pc = "returned" /\ csrfCalls[e].fn = "validate"
        /\ csrfCalls[e].ok
        /\ csrfCalls[e].token \in DOMAIN csrfTokens

-----------------------------------------------------------------------------
(* Claims about concurrent batches (checked under SpecTwoBatches) *)

\* the goroutines of call b that hold a slot
SlotHolders(b) == {idx \in BatchUnits(b) : batches[b].upc[idx] \in {"checking", "exit"}}

\* C33: the semaphore belongs to one handler call: a goroutine waiting at
\* the select can take a slot whenever fewer than maxConcurrent goroutines
\* of its own call hold one, whatever the other call holds; each call's
\* counter is the number of its own holders and never above maxConcurrent.
C33_SemaphorePerBatch ==
    \A b \in DOMAIN batches :
        /\ batches[b].sem = Cardinality(SlotHolders(b))
        /\ batches[b].sem <= maxConcurrent
        /\ \A idx \in BatchUnits(b) :
              (batches[b].upc[idx] = "select" /\ Cardinality(SlotHolders(b)) < maxConcurrent)
                  => ENABLED SlotAcquire(b, idx)

\* both calls run maxConcurrent checks at once, and a goroutine of the
\* first waits behind its own call's slots only
C33_Witness ==
    /\ Len(batches) = 2
    /\ \A b \in {1, 2} :
          Cardinality({idx \in BatchUnits(b) : batches[b].upc[idx] = "checking"}) = maxConcurrent
    /\ \E idx \in BatchUnits(1) : batches[1].upc[idx] = "select"
    /\ ~batches[1].ctxDone

-----------------------------------------------------------------------------
(* Claims about a cancelled check (checked under SpecCancelled) *)

-----------------------------------------------------------------------------
(* Claims about the termination of a batch (checked under SpecOneBatchFair) *)

\* every slot is taken and given back at most once, given back before the
\* goroutine signals, and the channel holds the slots not yet given back
SlotAccounting ==
    \A b \in DOMAIN batches :
        /\ \A idx \in BatchUnits(b) :
              /\ batches[b].acquired[idx] <= 1
              /\ batches[b].released[idx] <= batches[b].acquired[idx]
              /\ batches[b].upc[idx] \in {"signal", "done"}
                    => batches[b].released[idx] = batches[b].acquired[idx]
              /\ batches[b].upc[idx] \in {"checking", "exit"}
                    => (batches[b].acquired[idx] = 1 /\ batches[b].released[idx] = 0)
        /\ batches[b].sem =
              Cardinality({idx \in BatchUnits(b) :
                             batches[b].acquired[idx] > batches[b].released[idx]})
        /\ batches[b].hpc = "responded"
              => /\ batches[b].sem = 0
                 /\ \A idx \in BatchUnits(b) : batches[b].upc[idx] = "done"

BatchAnswered == \A b \in DOMAIN batches : batches[b].hpc = "responded"

\* C35: with fair scheduling and Check calls that return, every goroutine
\* of a batch finishes and the join returns (no deadlock, with or without
\* cancellation); every slot taken is given back exactly once, before the
\* goroutine signals completion, and no slot is held when the join returns.
C35_TerminatesSlotsReleased ==
    /\ []SlotAccounting
    /\ <>BatchAnswered

\* a batch with more goroutines than slots, not cancelled, has been answered
\* after every goroutine took and gave back its slot
C35_Witness ==
    /\ Len(batches) = 1
    /\ Len(batches[1].upc) = maxConcurrent + 1
    /\ batches[1].hpc = "responded"
    /\ ~batches[1].ctxDone
    /\ batches[1].sem = 0
    /\ \A idx \in BatchUnits(1) :
          batches[1].acquired[idx] = 1 /\ batches[1].released[idx] = 1

-----------------------------------------------------------------------------
(* Claims about inputs that fail normalization in a batch (checked under Spec) *)

\* the positions whose input Normalize rejected
InvalidUnits == {idx \in Units : normErrors[idx] # ErrNone}

-----------------------------------------------------------------------------
(* Claims about the source of a verdict (checked under SpecCheck) *)

\* C37: no verdict with Status Available has Source "dns": a verdict from
\* the DNS stage is Taken, given after a definitive record and nothing
\* else, and every Available verdict comes from RDAP or WHOIS, as the
\* answer of that prober.
C37_AvailableNeverFromDNS ==
    \A i \in DOMAIN call :
        LET f == call[i]
        IN  /\ (f.result.Status = StatusAvailable \/ f.result.Available)
                  => /\ f.result.Source \in {"rdap", "whois"}
                     /\ f.result.Source = "rdap" => f.rdap = RDAPAnswer(TRUE, NilError)
                     /\ f.result.Source = "whois" => f.whois = WHOISAnswer(TRUE, NilError)
            /\ f.result.Source = "dns"
                  => /\ f.result.Status = StatusTaken
                     /\ ~f.result.Available
                     /\ f.dns.shouldSkip
                     /\ f.invoked = <<"dns">>

\* the DNS stage found nothing, RDAP failed and WHOIS answered available
C37_Witness ==
    \E i \in DOMAIN call :
        /\ call[i].pc = "returned"
        /\ call[i].dns.likelyAvailable
        /\ call[i].rdap.err # NilError
        /\ call[i].result.Status = StatusAvailable
        /\ call[i].result.Source = "whois"

-----------------------------------------------------------------------------
(* Claims about the counters of the answer (checked under Spec) *)

\* the number of verdicts of the answer with the given status
WithStatus(status) ==
    Cardinality({i \in DOMAIN response.Results : response.Results[i].Status = status})

\* C38: the counters of the answer agree with the statuses of its verdicts:
\* Errors is the number of verdicts with Status Error, Available the number
\* with Status Available, Taken the number with Status Taken (and none is
\* Unknown), although the loop looks at Error and Available only.
C38_CountersMatchStatus ==
    hpc = "responded" =>
        /\ response.Errors = WithStatus(StatusError)
        /\ response.Available = WithStatus(StatusAvailable)
        /\ response.Taken = WithStatus(StatusTaken)
        /\ WithStatus(StatusUnknown) = 0
        /\ \A i \in DOMAIN response.Results :
              /\ response.Results[i].Error # <<>> <=> response.Results[i].Status = StatusError
              /\ response.Results[i].Available <=> response.Results[i].Status = StatusAvailable

\* an answer with a cancelled, an available and a taken verdict
C38_Witness ==
    /\ hpc = "responded"
    /\ response.Errors = 1
    /\ response.Available = 1
    /\ response.Taken = 1
    /\ \E i \in DOMAIN response.Results : response.Results[i].Error = <<"request cancelled">>

=============================================================================
